---- MODULE Spec2Model ----
(***************************************************************************)
(* Project_V: the clip-based spatial audio editor (App component, clip     *)
(* view drag handling, Web Audio backend as seen by the App).              *)
(*                                                                         *)
(* Times are integers in units of 0.01 s, gains in units of 0.1.           *)
(*                                                                         *)
(* JavaScript objects that the code mutates in place are kept on heaps:    *)
(*   trackClips[o]  the clips array of track object o                      *)
(*   handles[o]     the sourceNode / clipGainNode fields of clip object o  *)
(* so that two holders of the same object (the tracks state, a drag's      *)
(* originalClip, the newTracks array of an import in flight) see each      *)
(* other's in-place mutations, and holders of different objects do not.    *)
(* Every handler is an operator  h(cl, w, ...)  from the world w (state,   *)
(* refs and heaps as the handler runs) to the world it leaves; cl is the   *)
(* closure: the state of the render the handler was created in.            *)
(***************************************************************************)
EXTENDS Integers, Sequences, FiniteSets, TLC

\* ----------------------------------------------------------------- constants
MIN_CLIP_LEN == 10
SLICE_MARGIN == 1
DEFAULT_GAIN == 10
MAX_GAIN == 15

\* -------------------------------------------------------------------- bounds
MaxTracks == 2
MaxClipsPerTrack == 2
MaxFiles == 1
MaxInflight == 1
MaxClock == 24
MaxTime == 30
MaxOrphans == 1
MaxEvents == 7
MaxTransportEvents == 7
MaxEditEvents == 9
MaxPlaybackEvents == 5
MaxFrameEvents == 6
EditTracks == 1
MaxBatch == 3
MaxLoadTracks == 3
MaxLoadInflight == 2
MaxExports == 2
MaxLoadEvents == 6
\* The scene: meshes, events of a run, and the longest length measured.
MaxMeshes == 2
MaxSceneEvents == 5
MaxLength == 480
\* The WAV encoder: channels and frames of a buffer, and the frame rates.
MaxChannels == 2
MaxFrames == 2
RIFF == 1179011410
WAVE == 1163280727
FMT == 544501094
DATA == 1635017060
HEADER_BYTES == 44
\* Lengths of the scene in tenths of a unit.
STAGE_RADIUS == 100
MIN_SCROLL_DISTANCE == 1
MIN_CAMERA_DISTANCE == 10
MAX_CAMERA_DISTANCE == 300
\* lerp by 0.1; deltaY * 0.005 and deltaY * 0.001 * 2.5, in tenths.
LERP_STEPS == 10
SMOOTH_WHEEL_DIVISOR == 20
WHEEL_DIVISOR == 40

Durations == {20}
BatchDurations == {10, 20}
BAD == 0
ClockSteps == {6, 24}
SeekTimes == {-5, 0, 15, 100}
DragDeltas == {-100, -5, 0, 5}
GainDeltas == {-20, 5}
DragTypes == {"move", "trimStart", "trimEnd", "gain"}
TransportSeeks == {-5, 3, 20, 100}
TransportDrags == {"move", "trimStart"}
TransportDeltas == {5}
EditSeeks == {5, 15}

NULL == 0

\* Points of the sphere of radius 10, where a mesh may be created.
SpherePoints ==
    { [ x |-> 0, y |-> 100, z |-> 0 ], [ x |-> 60, y |-> 0, z |-> 80 ],
      [ x |-> 36, y |-> -80, z |-> 48 ], [ x |-> -80, y |-> 60, z |-> 0 ] }
\* Points a drag may ask for, inside the stage and outside it.
DragPoints ==
    { [ x |-> 0, y |-> 0, z |-> -200 ], [ x |-> 30, y |-> 40, z |-> 0 ],
      [ x |-> 90, y |-> 120, z |-> 0 ], [ x |-> 0, y |-> 0, z |-> 0 ],
      [ x |-> -70, y |-> 110, z |-> 130 ] }
\* Sample values in quarters: -2, -3/4, 0, 3/4 and 2.
Samples == { -8, -3, 0, 3, 8 }
SampleRates == { 8000, 44100 }
\* Timelines rendered for an export, in 0.01 s, and the rate of the context.
ExportDurations == { 1, 300 }
ExportRates == { 8000 }
\* Turns of the wheel, and places the orbit controls leave the camera at.
WheelDeltas == { -2000, -400, 400, 2000 }
Cameras ==
    { [ x |-> 0, y |-> 50, z |-> 150 ], [ x |-> 150, y |-> 50, z |-> 0 ],
      [ x |-> 0, y |-> 0, z |-> 50 ] }

VARIABLES
    soundSources,   \* state: sequence of [id, duration]
    tracks,         \* state: sequence of [id, obj]; obj names the track object
    trackClips,     \* heap: track object -> its clips array (sequence of clips)
    handles,        \* heap: clip object -> [sourceNode, clipGainNode]
    nodes,          \* backend: started source node -> its schedule and gain
    isPlaying, isLoading, currentTime, globalDuration, selectedClipId, clipboard,
    startOffset,    \* startOffsetRef.current
    startTime,      \* startTimeRef.current
    audioContext,   \* audioContextRef.current is set
    now,            \* audioContext.currentTime
    drag,           \* interactionStateRef of the clip view being dragged
    imports,        \* handleFiles calls suspended at an await
    exports,        \* handleExport calls suspended at startRendering
    is3DMode,       \* state: the 3D stage is shown, not the 2D one
    meshes,         \* soundSourceMeshes: id -> mesh.position
    panners,        \* id -> the position last given to the track's panner
    selectedObject, \* the mesh the pointer holds, by id
    scrollTargetDistance,
    smoothScroll,   \* the scene mounted is the one that scrolls smoothly
    renderedBuffer, \* the AudioBuffer an export has rendered, once it has
    wavBlob,        \* the bytes bufferToWav made of it
    pendingFrame,   \* the frame requested by the animate that ended the
                    \* playback, with the render it closes over
    last,           \* history: the handler that ran last, its argument and the
                    \* commands it gave the backend and the tracks state, in order
    budget          \* the number of events the run still handles

vars == << soundSources, tracks, trackClips, handles, nodes, isPlaying, isLoading,
           currentTime, globalDuration, selectedClipId, clipboard, startOffset,
           startTime, audioContext, now, drag, imports, exports, is3DMode,
           meshes, panners, selectedObject, scrollTargetDistance, smoothScroll,
           renderedBuffer, wavBlob, pendingFrame, last, budget >>

\* ------------------------------------------------------------------- helpers
Max2(a, b) == IF a >= b THEN a ELSE b
Min2(a, b) == IF a <= b THEN a ELSE b
SetMax(S) == CHOOSE x \in S : \A y \in S : y <= x
SetMin(S) == CHOOSE x \in S : \A y \in S : x <= y
Range(s) == { s[i] : i \in DOMAIN s }

RECURSIVE FreshSeq(_, _)
\* The n smallest positive numbers not in used, in increasing order: the
\* identities given to newly created objects, nodes and ids.
FreshSeq(used, n) ==
    IF n = 0 THEN << >>
    ELSE LET m == SetMin({ i \in 1..(Cardinality(used) + 1) : i \notin used })
         IN << m >> \o FreshSeq(used \cup {m}, n - 1)

Fresh(used) == FreshSeq(used, 1)[1]

NoHandles == [sourceNode |-> NULL, clipGainNode |-> NULL]

World ==
    [ soundSources |-> soundSources, tracks |-> tracks, trackClips |-> trackClips,
      handles |-> handles, nodes |-> nodes, isPlaying |-> isPlaying,
      isLoading |-> isLoading, currentTime |-> currentTime,
      globalDuration |-> globalDuration, selectedClipId |-> selectedClipId,
      clipboard |-> clipboard, startOffset |-> startOffset, startTime |-> startTime,
      audioContext |-> audioContext, now |-> now, drag |-> drag, imports |-> imports,
      exports |-> exports, calls |-> << >> ]

RECURSIVE FlatClips(_, _)
\* tracks.flatMap(t => t.clips), in order
FlatClips(ts, heap) ==
    IF ts = << >> THEN << >>
    ELSE heap[Head(ts).obj] \o FlatClips(Tail(ts), heap)

ClipsOf(w, ts) == Range(FlatClips(ts, w.trackClips))
AllClips == ClipsOf(World, tracks)

\* ------------------------------------------------------ reachability of heaps
ImportTracks(w) == UNION { Range(w.imports[i].tracks) : i \in DOMAIN w.imports }
ImportSources(w) == UNION { Range(w.imports[i].sources) : i \in DOMAIN w.imports }
LiveTrackObjs(w) == { t.obj : t \in Range(w.tracks) \cup ImportTracks(w) }
HeldClips(w) ==
    UNION { Range(w.trackClips[o]) : o \in LiveTrackObjs(w) }
        \cup { w.drag[i].originalClip : i \in DOMAIN w.drag }
LiveClipObjs(w) == { c.obj : c \in HeldClips(w) }
\* A started source still has sound to give: not stopped, window not yet over.
Active(n, clock) == ~n.stopped /\ clock < n.when + n.duration

UsedClipIds(w) ==
    { c.id : c \in HeldClips(w) } \cup { c.id : c \in Range(w.clipboard) }
        \cup ({ w.selectedClipId } \ { NULL })
UsedTrackIds(w) ==
    { t.id : t \in Range(w.tracks) \cup ImportTracks(w) }
        \cup { c.trackId : c \in HeldClips(w) \cup Range(w.clipboard) }
UsedSourceIds(w) ==
    { s.id : s \in Range(w.soundSources) \cup ImportSources(w) }
        \cup { c.sourceId : c \in HeldClips(w) \cup Range(w.clipboard) }

\* A clip view lives as long as its clip is in the tracks state; when it
\* unmounts, its pointer listeners go and its drag is over.
Mounted(w) ==
    SelectSeq(w.drag, LAMBDA st :
        \E c \in ClipsOf(w, w.tracks) : c.id = st.originalClip.id)

\* s without the later occurrences of its elements (a function, so that its
\* argument is a value by the time the recursion reads it)
DedupOf[s \in Seq(Nat)] ==
    IF s = << >> THEN << >>
    ELSE << Head(s) >> \o DedupOf[SelectSeq(Tail(s), LAMBDA x : x # Head(s))]
Dedup(s) == DedupOf[s]
IndexOf(s, x) == CHOOSE i \in DOMAIN s : s[i] = x

RECURSIVE Concat(_)
Concat(ss) == IF ss = << >> THEN << >> ELSE Head(ss) \o Concat(Tail(ss))

\* Object identities carry no information beyond equality: the objects that
\* are still held are numbered in the order in which the state reaches them.
TrackObjOrder(w) ==
    Dedup([ i \in DOMAIN w.tracks |-> w.tracks[i].obj ]
            \o Concat([ i \in DOMAIN w.imports |->
                          [ k \in DOMAIN w.imports[i].tracks |->
                              w.imports[i].tracks[k].obj ] ]))
ClipObjOrder(w, dragNow) ==
    LET torder == TrackObjOrder(w)
        held == Concat([ k \in DOMAIN torder |-> w.trackClips[torder[k]] ])
    IN Dedup([ k \in DOMAIN held |-> held[k].obj ]
               \o [ k \in DOMAIN dragNow |-> dragNow[k].originalClip.obj ])

RECURSIVE SortNodes(_, _)
\* The nodes of S, ordered by what they were scheduled to play.
SortNodes(S, w) ==
    IF S = {} THEN << >>
    ELSE LET key(n) == ((w.nodes[n].when * 100 + w.nodes[n].offset) * 100
                            + w.nodes[n].duration) * 100 + w.nodes[n].gain
             m == CHOOSE n \in S : \A o \in S : key(n) <= key(o)
         IN << m >> \o SortNodes(S \ {m}, w)

\* The nodes some held clip refers to, in the order the clips are reached,
\* then the started nodes nothing refers to that still have sound to give.
NodeOrder(w, corder) ==
    LET referenced == SelectSeq([ k \in DOMAIN corder |-> w.handles[corder[k]].sourceNode ]
                                  \o [ k \in DOMAIN corder |->
                                         w.handles[corder[k]].clipGainNode ],
                                LAMBDA n : n # NULL)
        orphans == { n \in DOMAIN w.nodes :
                       Active(w.nodes[n], w.now) /\ n \notin Range(referenced) }
    IN Dedup(referenced) \o SortNodes(orphans, w)

\* The next state is the world a handler leaves, after the render that
\* follows it, with the objects nothing holds any more dropped from the heaps
\* (garbage collection).
RenderApp(op, arg, w) ==
    \E dragNow \in {Mounted(w)}, torder \in {TrackObjOrder(w)} :
    \E corder \in {ClipObjOrder(w, dragNow)} :
    \E norder \in {NodeOrder(w, corder)} :
    LET tname(o) == IndexOf(torder, o)
        cname(o) == IndexOf(corder, o)
        nname(n) == IF n = NULL THEN NULL ELSE IndexOf(norder, n)
        renamed(ts) == [ i \in DOMAIN ts |-> [ ts[i] EXCEPT !.obj = tname(@) ] ]
    IN
    /\ last' = [ op |-> op, arg |-> arg, calls |-> w.calls ]
    /\ soundSources' = w.soundSources
    /\ tracks' = renamed(w.tracks)
    /\ trackClips' = [ k \in DOMAIN torder |->
                         LET arr == w.trackClips[torder[k]]
                         IN [ i \in DOMAIN arr |-> [ arr[i] EXCEPT !.obj = cname(@) ] ] ]
    /\ handles' = [ k \in DOMAIN corder |->
                      [ sourceNode |-> nname(w.handles[corder[k]].sourceNode),
                        clipGainNode |-> nname(w.handles[corder[k]].clipGainNode) ] ]
    /\ nodes' = [ k \in DOMAIN norder |-> w.nodes[norder[k]] ]
    /\ isPlaying' = w.isPlaying
    /\ isLoading' = w.isLoading
    /\ currentTime' = w.currentTime
    /\ globalDuration' = w.globalDuration
    /\ selectedClipId' = w.selectedClipId
    /\ clipboard' = w.clipboard
    /\ startOffset' = w.startOffset
    /\ startTime' = w.startTime
    /\ audioContext' = w.audioContext
    /\ now' = w.now
    /\ drag' = [ k \in DOMAIN dragNow |->
                   [ dragNow[k] EXCEPT !.originalClip.obj = cname(@) ] ]
    /\ imports' = [ i \in DOMAIN w.imports |->
                      [ w.imports[i] EXCEPT !.tracks = renamed(@) ] ]
    /\ exports' = w.exports
    /\ UNCHANGED << is3DMode, meshes, panners, selectedObject,
                    scrollTargetDistance, smoothScroll, renderedBuffer, wavBlob >>

\* A render with no frame of an ended playback left to run.
Render(op, arg, w) == RenderApp(op, arg, w) /\ UNCHANGED pendingFrame

\* One event handled, out of those the run still has.
Commit(op, arg, w) ==
    /\ budget > 0
    /\ budget' = budget - 1
    /\ Render(op, arg, w)

\* ------------------------------------------------------------ App: duration
\* A duration that is the longest clip's length, wherever the clip lies.
updateGlobalDurationByLength(w, currentTracks) ==
    [ w EXCEPT !.globalDuration =
        SetMax({0} \cup { c.duration : c \in ClipsOf(w, currentTracks) }) ]

\* Math.max(0, ...currentTracks.flatMap(t => t.clips).map(c => c.startTime + c.duration))
updateGlobalDuration(w, currentTracks) ==
    [ w EXCEPT !.globalDuration =
        SetMax({0} \cup { c.startTime + c.duration : c \in ClipsOf(w, currentTracks) }) ]

\* ------------------------------------------------------------- App: import
\* handleFiles up to its first await: the closure's soundSources and tracks
\* are copied (shallowly) into newSources and newTracks.
handleFilesStart(cl, w, files) ==
    IF Len(files) = 0 THEN w
    ELSE [ w EXCEPT !.audioContext = TRUE,
                    !.isLoading = TRUE,
                    !.imports = Append(@, [ sources |-> cl.soundSources,
                                            tracks |-> cl.tracks,
                                            files |-> files ]) ]

RECURSIVE decodeFilesAbortingOnError(_, _, _, _)
\* A loop that the first file that fails to decode ends.
decodeFilesAbortingOnError(w, newSources, newTracks, files) ==
    IF files = << >> \/ Head(files) = BAD
    THEN [ w |-> w, newSources |-> newSources, newTracks |-> newTracks ]
    ELSE
        LET srcId == Fresh(UsedSourceIds(w) \cup { s.id : s \in Range(newSources) })
            trackId == Fresh(UsedTrackIds(w) \cup { t.id : t \in Range(newTracks) })
            clipId == Fresh(UsedClipIds(w)
                        \cup { c.id : c \in Range(FlatClips(newTracks, w.trackClips)) })
            tobj == Fresh(DOMAIN w.trackClips)
            cobj == Fresh(DOMAIN w.handles)
            clip == [ id |-> clipId, sourceId |-> srcId, trackId |-> trackId,
                      name |-> srcId,
                      startTime |-> 0, offset |-> 0, duration |-> Head(files),
                      gain |-> DEFAULT_GAIN, obj |-> cobj ]
            w1 == [ w EXCEPT !.trackClips = @ @@ (tobj :> << clip >>),
                             !.handles = @ @@ (cobj :> NoHandles) ]
        IN decodeFilesAbortingOnError(w1,
                       Append(newSources, [ id |-> srcId, duration |-> Head(files) ]),
                       Append(newTracks, [ id |-> trackId, obj |-> tobj ]),
                       Tail(files))

RECURSIVE decodeFiles(_, _, _, _)
\* The for loop of handleFiles: one source, track and full-length clip per
\* file that decodes; a file that fails is logged and skipped.
decodeFiles(w, newSources, newTracks, files) ==
    IF files = << >> THEN [ w |-> w, newSources |-> newSources, newTracks |-> newTracks ]
    ELSE IF Head(files) = BAD THEN decodeFiles(w, newSources, newTracks, Tail(files))
    ELSE
        LET srcId == Fresh(UsedSourceIds(w) \cup { s.id : s \in Range(newSources) })
            trackId == Fresh(UsedTrackIds(w) \cup { t.id : t \in Range(newTracks) })
            clipId == Fresh(UsedClipIds(w)
                        \cup { c.id : c \in Range(FlatClips(newTracks, w.trackClips)) })
            tobj == Fresh(DOMAIN w.trackClips)
            cobj == Fresh(DOMAIN w.handles)
            \* name: file.name, one per file, written as the source's id
            clip == [ id |-> clipId, sourceId |-> srcId, trackId |-> trackId,
                      name |-> srcId,
                      startTime |-> 0, offset |-> 0, duration |-> Head(files),
                      gain |-> DEFAULT_GAIN, obj |-> cobj ]
            w1 == [ w EXCEPT !.trackClips = @ @@ (tobj :> << clip >>),
                             !.handles = @ @@ (cobj :> NoHandles) ]
        IN decodeFiles(w1,
                       Append(newSources, [ id |-> srcId, duration |-> Head(files) ]),
                       Append(newTracks, [ id |-> trackId, obj |-> tobj ]),
                       Tail(files))

RemoveAt(s, i) == SubSeq(s, 1, i - 1) \o SubSeq(s, i + 1, Len(s))

\* handleFiles from its last await on: the states are overwritten with the
\* arrays built from the copies taken when the call started.
handleFilesFinish(w, i) ==
    LET imp == w.imports[i]
        w0 == [ w EXCEPT !.imports = RemoveAt(@, i) ]
        \* imp's arrays are still held by the running call
        d == decodeFiles(w, imp.sources, imp.tracks, imp.files)
        w1 == [ d.w EXCEPT !.imports = w0.imports,
                           !.soundSources = d.newSources,
                           !.tracks = d.newTracks ]
    IN [ updateGlobalDuration(w1, d.newTracks) EXCEPT !.isLoading = FALSE ]

\* ---------------------------------------------------------- App: transport
\* Entries of the command log.
Start(clip, sch) ==
    [ cmd |-> "start", clip |-> clip.id,
      when |-> sch.when, offset |-> sch.offset, duration |-> sch.duration ]
Stop(clip) ==
    [ cmd |-> "stop", clip |-> clip.id,
      when |-> NULL, offset |-> NULL, duration |-> NULL ]
SetTracks ==
    [ cmd |-> "setTracks", clip |-> NULL,
      when |-> NULL, offset |-> NULL, duration |-> NULL ]

\* The clips playAudio starts, in the order it visits them.
ShouldStart(clip, playbackStartTime, cl) ==
    /\ clip.startTime + clip.duration > playbackStartTime
    /\ clip.startTime < cl.globalDuration
    /\ \E s \in Range(cl.soundSources) : s.id = clip.sourceId
    /\ clip.duration - Max2(0, playbackStartTime - clip.startTime) > 0

\* A scheduler that reads every clip from the start of its window, however far
\* the playhead already is into the clip.
ScheduleFromWindowStart(clip, playbackStartTime, startClock) ==
    [ when |-> startClock + Max2(0, clip.startTime - playbackStartTime),
      offset |-> clip.offset,
      duration |-> clip.duration - Max2(0, playbackStartTime - clip.startTime),
      gain |-> clip.gain,
      stopped |-> FALSE,
      clip |-> clip.id ]

\* sourceNode.start(when, offset, duration) for one clip
Schedule(clip, playbackStartTime, startClock) ==
    [ when |-> startClock + Max2(0, clip.startTime - playbackStartTime),
      offset |-> clip.offset + Max2(0, playbackStartTime - clip.startTime),
      duration |-> clip.duration - Max2(0, playbackStartTime - clip.startTime),
      gain |-> clip.gain,
      stopped |-> FALSE,
      clip |-> clip.id ]

\* A play that starts the clips again when the transport is already playing.
playAudioWhilePlaying(cl, w) ==
    IF ~w.audioContext \/ Len(cl.tracks) = 0 THEN w
    ELSE
        LET playbackStartTime == w.startOffset
            toStart == SelectSeq(FlatClips(w.tracks, w.trackClips),
                                 LAMBDA c : ShouldStart(c, playbackStartTime, cl))
            fresh == FreshSeq(DOMAIN w.nodes, Len(toStart))
            idx(o) == CHOOSE k \in DOMAIN toStart : toStart[k].obj = o
            started == { toStart[k].obj : k \in DOMAIN toStart }
        IN [ w EXCEPT
               !.startTime = w.now,
               !.calls = @ \o [ k \in DOMAIN toStart |->
                                  Start(toStart[k],
                                        Schedule(toStart[k], playbackStartTime, w.now)) ],
               !.nodes = [ n \in (DOMAIN @ \ Range(fresh)) |-> @[n] ] @@
                         [ n \in Range(fresh) |->
                             LET k == CHOOSE j \in DOMAIN fresh : fresh[j] = n
                             IN Schedule(toStart[k], playbackStartTime, w.now) ],
               !.handles = [ o \in DOMAIN @ |->
                               IF o \in started
                               THEN [ sourceNode |-> fresh[idx(o)],
                                      clipGainNode |-> fresh[idx(o)] ]
                               ELSE @[o] ],
               !.isPlaying = TRUE ]

playAudio(cl, w) ==
    IF ~w.audioContext \/ cl.isPlaying \/ Len(cl.tracks) = 0 THEN w
    ELSE
        LET playbackStartTime == w.startOffset
            toStart == SelectSeq(FlatClips(w.tracks, w.trackClips),
                                 LAMBDA c : ShouldStart(c, playbackStartTime, cl))
            fresh == FreshSeq(DOMAIN w.nodes, Len(toStart))
            idx(o) == CHOOSE k \in DOMAIN toStart : toStart[k].obj = o
            started == { toStart[k].obj : k \in DOMAIN toStart }
        IN [ w EXCEPT
               !.startTime = w.now,
               !.calls = @ \o [ k \in DOMAIN toStart |->
                                  Start(toStart[k],
                                        Schedule(toStart[k], playbackStartTime, w.now)) ],
               !.nodes = [ n \in (DOMAIN @ \ Range(fresh)) |-> @[n] ] @@
                         [ n \in Range(fresh) |->
                             LET k == CHOOSE j \in DOMAIN fresh : fresh[j] = n
                             IN Schedule(toStart[k], playbackStartTime, w.now) ],
               !.handles = [ o \in DOMAIN @ |->
                               IF o \in started
                               THEN [ sourceNode |-> fresh[idx(o)],
                                      clipGainNode |-> fresh[idx(o)] ]
                               ELSE @[o] ],
               !.isPlaying = TRUE ]

\* A pause that takes the elapsed time for the new offset instead of adding it.
pauseAudioForgettingOffset(cl, w) ==
    IF ~cl.isPlaying \/ ~w.audioContext THEN w
    ELSE
        LET elapsedTime == w.now - w.startTime
            sounding == { c.obj : c \in ClipsOf(w, cl.tracks) }
            held == { o \in sounding : w.handles[o].sourceNode # NULL }
            stoppedNodes == { w.handles[o].sourceNode : o \in held }
            stops == SelectSeq(FlatClips(cl.tracks, w.trackClips),
                               LAMBDA c : c.obj \in held)
        IN [ w EXCEPT
               !.startOffset = elapsedTime,
               !.calls = @ \o [ k \in DOMAIN stops |-> Stop(stops[k]) ],
               !.nodes = [ n \in DOMAIN @ |->
                             IF n \in stoppedNodes
                             THEN [ w.nodes[n] EXCEPT !.stopped = TRUE ]
                             ELSE w.nodes[n] ],
               !.handles = [ o \in DOMAIN @ |->
                               IF o \in held THEN NoHandles ELSE w.handles[o] ],
               !.isPlaying = FALSE ]

pauseAudio(cl, w) ==
    IF ~cl.isPlaying \/ ~w.audioContext THEN w
    ELSE
        LET elapsedTime == w.now - w.startTime
            sounding == { c.obj : c \in ClipsOf(w, cl.tracks) }
            held == { o \in sounding : w.handles[o].sourceNode # NULL }
            stoppedNodes == { w.handles[o].sourceNode : o \in held }
            stops == SelectSeq(FlatClips(cl.tracks, w.trackClips),
                               LAMBDA c : c.obj \in held)
        IN [ w EXCEPT
               !.startOffset = @ + elapsedTime,
               !.calls = @ \o [ k \in DOMAIN stops |->
                                  Stop(stops[k]) ],
               !.nodes = [ n \in DOMAIN @ |->
                             IF n \in stoppedNodes
                             THEN [ w.nodes[n] EXCEPT !.stopped = TRUE ]
                             ELSE w.nodes[n] ],
               !.handles = [ o \in DOMAIN @ |->
                               IF o \in held THEN NoHandles ELSE w.handles[o] ],
               !.isPlaying = FALSE ]

\* A frame callback that stops only once the position is past the end.
animateStrictlyPastEnd(cl, w) ==
    IF ~w.audioContext THEN w
    ELSE
        LET elapsedTime == w.now - w.startTime
            newCurrentTime == w.startOffset + elapsedTime
        IN IF newCurrentTime > cl.globalDuration
           THEN [ pauseAudio(cl, w) EXCEPT !.startOffset = 0, !.currentTime = 0 ]
           ELSE [ w EXCEPT !.currentTime = newCurrentTime ]

\* A frame that never looks for the end of the timeline.
animateWithoutEnd(cl, w) ==
    IF ~w.audioContext THEN w
    ELSE [ w EXCEPT !.currentTime = w.startOffset + (w.now - w.startTime) ]

\* One run of the requestAnimationFrame callback of the isPlaying effect.
animate(cl, w) ==
    IF ~w.audioContext THEN w
    ELSE
        LET elapsedTime == w.now - w.startTime
            newCurrentTime == w.startOffset + elapsedTime
        IN IF newCurrentTime >= cl.globalDuration
           THEN [ pauseAudio(cl, w) EXCEPT !.startOffset = 0, !.currentTime = 0 ]
           ELSE [ w EXCEPT !.currentTime = newCurrentTime ]

\* A seek that does not stop at the end of the timeline.
handleSeekPastEnd(cl, w, newTime) ==
    LET wasPlaying == cl.isPlaying
        w1 == IF wasPlaying THEN pauseAudio(cl, w) ELSE w
        clampedTime == Max2(0, newTime)
        w2 == [ w1 EXCEPT !.startOffset = clampedTime, !.currentTime = clampedTime ]
    IN IF wasPlaying THEN playAudio(cl, w2) ELSE w2

handleSeek(cl, w, newTime) ==
    LET wasPlaying == cl.isPlaying
        w1 == IF wasPlaying THEN pauseAudio(cl, w) ELSE w
        clampedTime == Max2(0, Min2(newTime, cl.globalDuration))
        w2 == [ w1 EXCEPT !.startOffset = clampedTime, !.currentTime = clampedTime ]
    IN IF wasPlaying THEN playAudio(cl, w2) ELSE w2

\* ------------------------------------------------------- clip view: dragging
SourceDuration(w, sourceId) ==
    LET found == { s \in Range(w.soundSources) : s.id = sourceId }
    IN IF found = {} THEN NULL ELSE (CHOOSE s \in found : TRUE).duration

\* handlePointerDown: select the clip and remember the clip object it shows.
handlePointerDown(cl, w, clip, type) ==
    [ w EXCEPT !.selectedClipId = clip.id,
               !.drag = << [ type |-> type, originalClip |-> clip,
                             sourceBufferDuration |->
                                 SourceDuration(cl, clip.sourceId) ] >> ]

\* A drag whose left trim is not stopped at the start of the source buffer.
DraggedClipTrimPastBufferStart(type, originalClip, sourceBufferDuration, d) ==
    IF type = "move"
    THEN [ originalClip EXCEPT !.startTime = Max2(0, originalClip.startTime + d) ]
    ELSE IF type = "trimStart"
    THEN LET maxTrim == originalClip.duration - MIN_CLIP_LEN
             actualDTime == Min2(d, maxTrim)
         IN [ originalClip EXCEPT !.startTime = originalClip.startTime + actualDTime,
                                  !.offset = originalClip.offset + actualDTime,
                                  !.duration = originalClip.duration - actualDTime ]
    ELSE IF type = "trimEnd"
    THEN LET maxTrim == originalClip.duration - MIN_CLIP_LEN
             actualDTime ==
                 Max2(-maxTrim,
                      Min2(d, sourceBufferDuration - originalClip.offset
                                  - originalClip.duration))
         IN [ originalClip EXCEPT !.duration = originalClip.duration + actualDTime ]
    ELSE LET newGain == originalClip.gain + d
         IN [ originalClip EXCEPT !.gain = Max2(0, Min2(MAX_GAIN, newGain)) ]

\* A gain drag that is not held within 0 .. 1.5.
DraggedClipGainUnclamped(type, originalClip, sourceBufferDuration, d) ==
    IF type = "gain"
    THEN [ originalClip EXCEPT !.gain = originalClip.gain + d ]
    ELSE DraggedClipTrimPastBufferStart(type, originalClip, sourceBufferDuration, d)

\* A drag whose left trim moves the start of the clip and leaves its length.
DraggedClipTrimKeepingLength(type, originalClip, sourceBufferDuration, d) ==
    IF type = "trimStart"
    THEN LET maxTrim == originalClip.duration - MIN_CLIP_LEN
             actualDTime == Max2(-originalClip.offset, Min2(d, maxTrim))
         IN [ originalClip EXCEPT !.startTime = originalClip.startTime + actualDTime,
                                  !.offset = originalClip.offset + actualDTime ]
    ELSE DraggedClipTrimPastBufferStart(type, originalClip, sourceBufferDuration, d)

\* The clip handlePointerMove builds from originalClip for a pointer that has
\* moved by dTime (move, trims) or whose height changed the gain by gainChange.
DraggedClip(type, originalClip, sourceBufferDuration, d) ==
    IF type = "move"
    THEN [ originalClip EXCEPT !.startTime = Max2(0, originalClip.startTime + d) ]
    ELSE IF type = "trimStart"
    THEN LET maxTrim == originalClip.duration - MIN_CLIP_LEN
             actualDTime == Max2(-originalClip.offset, Min2(d, maxTrim))
         IN [ originalClip EXCEPT !.startTime = originalClip.startTime + actualDTime,
                                  !.offset = originalClip.offset + actualDTime,
                                  !.duration = originalClip.duration - actualDTime ]
    ELSE IF type = "trimEnd"
    THEN LET maxTrim == originalClip.duration - MIN_CLIP_LEN
             actualDTime ==
                 Max2(-maxTrim,
                      Min2(d, sourceBufferDuration - originalClip.offset
                                  - originalClip.duration))
         IN [ originalClip EXCEPT !.duration = originalClip.duration + actualDTime ]
    ELSE LET newGain == originalClip.gain + d
         IN [ originalClip EXCEPT !.gain = Max2(0, Min2(MAX_GAIN, newGain)) ]

\* setTracks updater of handleUpdateClip. updatedClip is a new object; the
\* track it names is replaced by a new track object with a new clips array.
handleUpdateClip(w, updatedClip) ==
    LET hit == { i \in DOMAIN w.tracks : w.tracks[i].id = updatedClip.trackId }
        objs == FreshSeq(DOMAIN w.trackClips, Cardinality(hit))
        rank(i) == Cardinality({ j \in hit : j <= i })
        replaced == { c \in UNION { Range(w.trackClips[w.tracks[i].obj]) : i \in hit } :
                        c.id = updatedClip.id }
        regained == { w.handles[c.obj].clipGainNode : c \in
                        { c \in replaced : /\ w.handles[c.obj].clipGainNode # NULL
                                           /\ c.gain # updatedClip.gain
                                           /\ w.audioContext } }
        newTracks == [ i \in DOMAIN w.tracks |->
                         IF i \in hit THEN [ w.tracks[i] EXCEPT !.obj = objs[rank(i)] ]
                         ELSE w.tracks[i] ]
        newArrays == [ o \in Range(objs) |->
                         LET i == CHOOSE j \in hit : objs[rank(j)] = o
                             old == w.trackClips[w.tracks[i].obj]
                         IN [ k \in DOMAIN old |->
                                IF old[k].id = updatedClip.id THEN updatedClip
                                ELSE old[k] ] ]
        w1 == [ w EXCEPT
                  !.tracks = newTracks,
                  !.trackClips = @ @@ newArrays,
                  !.nodes = [ n \in DOMAIN @ |->
                                IF n \in regained
                                THEN [ w.nodes[n] EXCEPT !.gain = updatedClip.gain ]
                                ELSE w.nodes[n] ] ]
    IN updateGlobalDuration(w1, newTracks)

\* A pointer move that stops the source of the clip it edits.
handlePointerMoveStoppingSource(w, d) ==
    IF w.drag = << >> THEN w
    ELSE
        LET st == w.drag[1]
            cobj == Fresh(DOMAIN w.handles)
            newClip == [ DraggedClip(st.type, st.originalClip,
                                     st.sourceBufferDuration, d)
                           EXCEPT !.obj = cobj ]
            w1 == [ w EXCEPT !.handles = @ @@ (cobj :> w.handles[st.originalClip.obj]) ]
            w2 == handleUpdateClip(w1, newClip)
            stoppedNodes == { w.handles[c.obj].sourceNode :
                                c \in { k \in ClipsOf(w, w.tracks) :
                                          k.id = st.originalClip.id } } \ {NULL}
        IN [ w2 EXCEPT
               !.calls = @ \o << Stop(st.originalClip) >>,
               !.nodes = [ n \in DOMAIN w2.nodes |->
                             IF n \in stoppedNodes
                             THEN [ w2.nodes[n] EXCEPT !.stopped = TRUE ]
                             ELSE w2.nodes[n] ] ]

\* handlePointerMove: newClip = {...originalClip} with the dragged field set,
\* handed to onUpdate. The copy takes originalClip's handle fields as they
\* are now.
handlePointerMove(w, d) ==
    IF w.drag = << >> THEN w
    ELSE
        LET st == w.drag[1]
            cobj == Fresh(DOMAIN w.handles)
            newClip == [ DraggedClip(st.type, st.originalClip,
                                     st.sourceBufferDuration, d)
                           EXCEPT !.obj = cobj ]
            w1 == [ w EXCEPT !.handles = @ @@ (cobj :> w.handles[st.originalClip.obj]) ]
        IN handleUpdateClip(w1, newClip)

handlePointerUp(w) == [ w EXCEPT !.drag = << >> ]

\* ---------------------------------------------------------- App: clip edits
RECURSIVE SliceInKeepingOffset(_, _, _, _)
\* A slice whose second clip reads from where the first one does.
SliceInKeepingOffset(cl, w, ts, i) ==
    IF i > Len(ts) THEN [ w |-> w, found |-> FALSE ]
    ELSE
        LET arr == w.trackClips[ts[i].obj]
            at == { k \in DOMAIN arr : arr[k].id = cl.selectedClipId }
        IN IF at = {} THEN SliceInKeepingOffset(cl, w, ts, i + 1)
           ELSE
             LET clipIndex == SetMin(at)
                 clip == arr[clipIndex]
                 sliceTimeInClip == cl.currentTime - clip.startTime
             IN IF sliceTimeInClip > SLICE_MARGIN
                    /\ sliceTimeInClip < clip.duration - SLICE_MARGIN
                THEN
                  LET objs == FreshSeq(DOMAIN w.handles, 2)
                      firstClip == [ clip EXCEPT !.duration = sliceTimeInClip,
                                                 !.obj = objs[1] ]
                      secondClip ==
                          [ clip EXCEPT !.id = Fresh(UsedClipIds(w)),
                                        !.startTime = clip.startTime + sliceTimeInClip,
                                        !.offset = clip.offset,
                                        !.duration = clip.duration - sliceTimeInClip,
                                        !.obj = objs[2] ]
                  IN [ w |-> [ w EXCEPT
                                 !.handles = @ @@ (objs[1] :> w.handles[clip.obj])
                                               @@ (objs[2] :> w.handles[clip.obj]),
                                 !.trackClips[ts[i].obj] =
                                     SubSeq(arr, 1, clipIndex - 1)
                                       \o << firstClip, secondClip >>
                                       \o SubSeq(arr, clipIndex + 1, Len(arr)) ],
                       found |-> TRUE ]
                ELSE SliceInKeepingOffset(cl, w, ts, i + 1)

RECURSIVE SliceInAtEdges(_, _, _, _)
\* A slice that is also made with the playhead on an edge of the clip.
SliceInAtEdges(cl, w, ts, i) ==
    IF i > Len(ts) THEN [ w |-> w, found |-> FALSE ]
    ELSE
        LET arr == w.trackClips[ts[i].obj]
            at == { k \in DOMAIN arr : arr[k].id = cl.selectedClipId }
        IN IF at = {} THEN SliceInAtEdges(cl, w, ts, i + 1)
           ELSE
             LET clipIndex == SetMin(at)
                 clip == arr[clipIndex]
                 sliceTimeInClip == cl.currentTime - clip.startTime
             IN IF sliceTimeInClip >= 0
                    /\ sliceTimeInClip <= clip.duration
                THEN
                  LET objs == FreshSeq(DOMAIN w.handles, 2)
                      firstClip == [ clip EXCEPT !.duration = sliceTimeInClip,
                                                 !.obj = objs[1] ]
                      secondClip ==
                          [ clip EXCEPT !.id = Fresh(UsedClipIds(w)),
                                        !.startTime = clip.startTime + sliceTimeInClip,
                                        !.offset = clip.offset + sliceTimeInClip,
                                        !.duration = clip.duration - sliceTimeInClip,
                                        !.obj = objs[2] ]
                  IN [ w |-> [ w EXCEPT
                                 !.handles = @ @@ (objs[1] :> w.handles[clip.obj])
                                               @@ (objs[2] :> w.handles[clip.obj]),
                                 !.trackClips[ts[i].obj] =
                                     SubSeq(arr, 1, clipIndex - 1)
                                       \o << firstClip, secondClip >>
                                       \o SubSeq(arr, clipIndex + 1, Len(arr)) ],
                       found |-> TRUE ]
                ELSE SliceInAtEdges(cl, w, ts, i + 1)

RECURSIVE SliceInKeepingId(_, _, _, _)
\* A slice whose second part keeps the id of the clip.
SliceInKeepingId(cl, w, ts, i) ==
    IF i > Len(ts) THEN [ w |-> w, found |-> FALSE ]
    ELSE
        LET arr == w.trackClips[ts[i].obj]
            at == { k \in DOMAIN arr : arr[k].id = cl.selectedClipId }
        IN IF at = {} THEN SliceInKeepingId(cl, w, ts, i + 1)
           ELSE
             LET clipIndex == SetMin(at)
                 clip == arr[clipIndex]
                 sliceTimeInClip == cl.currentTime - clip.startTime
             IN IF sliceTimeInClip > SLICE_MARGIN
                    /\ sliceTimeInClip < clip.duration - SLICE_MARGIN
                THEN
                  LET objs == FreshSeq(DOMAIN w.handles, 2)
                      firstClip == [ clip EXCEPT !.duration = sliceTimeInClip,
                                                 !.obj = objs[1] ]
                      secondClip ==
                          [ clip EXCEPT !.startTime = clip.startTime + sliceTimeInClip,
                                        !.offset = clip.offset + sliceTimeInClip,
                                        !.duration = clip.duration - sliceTimeInClip,
                                        !.obj = objs[2] ]
                  IN [ w |-> [ w EXCEPT
                                 !.handles = @ @@ (objs[1] :> w.handles[clip.obj])
                                               @@ (objs[2] :> w.handles[clip.obj]),
                                 !.trackClips[ts[i].obj] =
                                     SubSeq(arr, 1, clipIndex - 1)
                                       \o << firstClip, secondClip >>
                                       \o SubSeq(arr, clipIndex + 1, Len(arr)) ],
                       found |-> TRUE ]
                ELSE SliceInKeepingId(cl, w, ts, i + 1)

RECURSIVE SliceIn(_, _, _, _)
\* The for loop of the handleSliceClip updater over newTracks from index i:
\* the first track that holds the selected clip with the playhead far enough
\* inside it has its clips array spliced in place.
SliceIn(cl, w, ts, i) ==
    IF i > Len(ts) THEN [ w |-> w, found |-> FALSE ]
    ELSE
        LET arr == w.trackClips[ts[i].obj]
            at == { k \in DOMAIN arr : arr[k].id = cl.selectedClipId }
        IN IF at = {} THEN SliceIn(cl, w, ts, i + 1)
           ELSE
             LET clipIndex == SetMin(at)
                 clip == arr[clipIndex]
                 sliceTimeInClip == cl.currentTime - clip.startTime
             IN IF sliceTimeInClip > SLICE_MARGIN
                    /\ sliceTimeInClip < clip.duration - SLICE_MARGIN
                THEN
                  LET objs == FreshSeq(DOMAIN w.handles, 2)
                      firstClip == [ clip EXCEPT !.duration = sliceTimeInClip,
                                                 !.obj = objs[1] ]
                      secondClip ==
                          [ clip EXCEPT !.id = Fresh(UsedClipIds(w)),
                                        !.startTime = clip.startTime + sliceTimeInClip,
                                        !.offset = clip.offset + sliceTimeInClip,
                                        !.duration = clip.duration - sliceTimeInClip,
                                        !.obj = objs[2] ]
                  IN [ w |-> [ w EXCEPT
                                 !.handles = @ @@ (objs[1] :> w.handles[clip.obj])
                                               @@ (objs[2] :> w.handles[clip.obj]),
                                 !.trackClips[ts[i].obj] =
                                     SubSeq(arr, 1, clipIndex - 1)
                                       \o << firstClip, secondClip >>
                                       \o SubSeq(arr, clipIndex + 1, Len(arr)) ],
                       found |-> TRUE ]
                ELSE SliceIn(cl, w, ts, i + 1)

handleSliceClip(cl, w) ==
    IF cl.selectedClipId = NULL \/ cl.currentTime <= 0 THEN w
    ELSE
        LET r == SliceIn(cl, w, w.tracks, 1)
            w1 == IF r.found THEN updateGlobalDuration(r.w, r.w.tracks) ELSE r.w
        IN [ w1 EXCEPT !.selectedClipId = NULL ]

\* keydown, Ctrl/Cmd+C
handleCopy(cl, w) ==
    IF cl.selectedClipId = NULL THEN w
    ELSE
        LET found == SelectSeq(FlatClips(cl.tracks, w.trackClips),
                               LAMBDA c : c.id = cl.selectedClipId)
        IN IF found = << >> THEN w
           ELSE [ w EXCEPT !.clipboard = << [ found[1] EXCEPT !.obj = NULL ] >> ]

\* A paste whose clip keeps the id of the clip that was copied.
handlePasteKeepingId(cl, w) ==
    IF cl.clipboard = << >> THEN w
    ELSE
        LET target == { i \in DOMAIN w.tracks : w.tracks[i].id = cl.clipboard[1].trackId }
            cobj == Fresh(DOMAIN w.handles)
            newClip == [ cl.clipboard[1] EXCEPT !.startTime = cl.currentTime,
                                                !.obj = cobj ]
            w1 == IF target = {} THEN w
                  ELSE [ w EXCEPT
                           !.handles = @ @@ (cobj :> NoHandles),
                           !.trackClips[w.tracks[SetMin(target)].obj] =
                               Append(@, newClip) ]
        IN updateGlobalDuration(w1, w1.tracks)

\* keydown, Ctrl/Cmd+V
handlePaste(cl, w) ==
    IF cl.clipboard = << >> THEN w
    ELSE
        LET target == { i \in DOMAIN w.tracks : w.tracks[i].id = cl.clipboard[1].trackId }
            cobj == Fresh(DOMAIN w.handles)
            newClip == [ cl.clipboard[1] EXCEPT !.id = Fresh(UsedClipIds(w)),
                                                !.startTime = cl.currentTime,
                                                !.obj = cobj ]
            w1 == IF target = {} THEN w
                  ELSE [ w EXCEPT
                           !.handles = @ @@ (cobj :> NoHandles),
                           !.trackClips[w.tracks[SetMin(target)].obj] =
                               Append(@, newClip) ]
        IN updateGlobalDuration(w1, w1.tracks)

handleDeleteClip(w, clipId) ==
    IF clipId = NULL THEN w
    ELSE
        LET hit == { i \in DOMAIN w.tracks :
                       \E c \in Range(w.trackClips[w.tracks[i].obj]) : c.id = clipId }
            objs == FreshSeq(DOMAIN w.trackClips, Cardinality(hit))
            rank(i) == Cardinality({ j \in hit : j <= i })
            newTracks == [ i \in DOMAIN w.tracks |->
                             IF i \in hit THEN [ w.tracks[i] EXCEPT !.obj = objs[rank(i)] ]
                             ELSE w.tracks[i] ]
            newArrays == [ o \in Range(objs) |->
                             LET i == CHOOSE j \in hit : objs[rank(j)] = o
                             IN SelectSeq(w.trackClips[w.tracks[i].obj],
                                          LAMBDA c : c.id # clipId) ]
            w1 == [ w EXCEPT !.tracks = newTracks, !.trackClips = @ @@ newArrays,
                             !.calls = Append(@, SetTracks) ]
        IN [ updateGlobalDuration(w1, newTracks) EXCEPT !.selectedClipId = NULL ]

handleDeleteTrack(cl, w, id) ==
    LET w1 == IF cl.isPlaying THEN pauseAudio(cl, w) ELSE w
        newTracks == SelectSeq(cl.tracks, LAMBDA t : t.id # id)
        w2 == [ w1 EXCEPT !.tracks = newTracks, !.calls = Append(@, SetTracks) ]
    IN [ updateGlobalDuration(w2, newTracks) EXCEPT !.startOffset = 0,
                                                    !.currentTime = 0 ]

\* -------------------------------------------------------------- App: export
\* Entries of the command log: the alert of a failed export, the click on the
\* download link of a rendered one.
Alert ==
    [ cmd |-> "alert", clip |-> NULL,
      when |-> NULL, offset |-> NULL, duration |-> NULL ]
Download ==
    [ cmd |-> "download", clip |-> NULL,
      when |-> NULL, offset |-> NULL, duration |-> NULL ]

\* offlineSource.start(clip.startTime, clip.offset, clip.duration), with
\* offlineClipGain at clip.gain, for every clip of the closure's tracks whose
\* source is found.
exportSchedule(cl, w) ==
    { [ clip |-> c.id, when |-> c.startTime, offset |-> c.offset,
        duration |-> c.duration, gain |-> c.gain ] :
        c \in { k \in ClipsOf(w, cl.tracks) :
                  \E s \in Range(cl.soundSources) : s.id = k.sourceId } }

\* new OfflineAudioContext(2, 0, sampleRate) throws (the length must be at
\* least 1), and so does start() for a negative when, offset or duration.
exportThrows(cl, w) ==
    \/ cl.globalDuration <= 0
    \/ \E st \in exportSchedule(cl, w) :
           st.when < 0 \/ st.offset < 0 \/ st.duration < 0

\* handleExport up to its await of startRendering(), or through catch and
\* finally when building the offline graph throws.
handleExportStart(cl, w) ==
    IF Len(cl.tracks) = 0 \/ cl.isLoading THEN w
    ELSE IF exportThrows(cl, w)
    THEN [ w EXCEPT !.isLoading = FALSE, !.calls = Append(@, Alert) ]
    ELSE [ w EXCEPT !.isLoading = TRUE,
                    !.exports = Append(@, [ starts |-> exportSchedule(cl, w) ]) ]

\* An export whose failed rendering leaves the loading flag set.
handleExportFinishWithoutFinally(w, i, rendered) ==
    IF rendered
    THEN [ w EXCEPT !.exports = RemoveAt(@, i),
                    !.isLoading = FALSE,
                    !.calls = Append(@, Download) ]
    ELSE [ w EXCEPT !.exports = RemoveAt(@, i),
                    !.calls = Append(@, Alert) ]

\* handleExport from the await on: the rendered buffer is downloaded, or the
\* rejection is caught and alerted; finally the loading flag is cleared.
handleExportFinish(w, i, rendered) ==
    [ w EXCEPT !.exports = RemoveAt(@, i),
               !.isLoading = FALSE,
               !.calls = Append(@, IF rendered THEN Download ELSE Alert) ]

\* ---------------------------------------------------------------- bufferToWav
\* DataView.setUint16 and setUint32, little-endian: the bytes written.
setUint16(data) == << data % 256, (data \div 256) % 256 >>
setUint32(data) ==
    << data % 256, (data \div 256) % 256, (data \div 65536) % 256,
       (data \div 16777216) % 256 >>

\* A sample in quarters, clamped to [-1, 1] and scaled to 16 bits, as
\* setInt16 stores it: cut towards zero, in two's complement.
setInt16(sample) ==
    LET clamped == Max2(-4, Min2(4, sample))
        scaled == IF clamped < 0 THEN -((-clamped * 32768) \div 4)
                  ELSE (clamped * 32767) \div 4
    IN setUint16(scaled % 65536)

\* The samples of the buffer, frame by frame and channel by channel.
interleaved(buffer) ==
    [ k \in 1..(buffer.length * buffer.numberOfChannels * 2) |->
        LET n == (k - 1) \div 2
            i == n \div buffer.numberOfChannels
            c == n % buffer.numberOfChannels
        IN setInt16(buffer.channels[c + 1][i + 1])[((k - 1) % 2) + 1] ]

\* A header whose data chunk counts one channel only.
bufferToWavCountingOneChannel(buffer) ==
    LET bufferLength == buffer.length * buffer.numberOfChannels * 2 + HEADER_BYTES
    IN setUint32(RIFF) \o setUint32(bufferLength - 8) \o setUint32(WAVE)
       \o setUint32(FMT) \o setUint32(16) \o setUint16(1)
       \o setUint16(buffer.numberOfChannels) \o setUint32(buffer.sampleRate)
       \o setUint32(buffer.sampleRate * 2 * buffer.numberOfChannels)
       \o setUint16(buffer.numberOfChannels * 2) \o setUint16(16)
       \o setUint32(DATA) \o setUint32(buffer.length * 2)
       \o interleaved(buffer)

\* bufferToWav: pos is 40 when the size of the data chunk is written.
bufferToWav(buffer) ==
    LET bufferLength == buffer.length * buffer.numberOfChannels * 2 + HEADER_BYTES
    IN setUint32(RIFF) \o setUint32(bufferLength - 8) \o setUint32(WAVE)
       \o setUint32(FMT) \o setUint32(16) \o setUint16(1)
       \o setUint16(buffer.numberOfChannels) \o setUint32(buffer.sampleRate)
       \o setUint32(buffer.sampleRate * 2 * buffer.numberOfChannels)
       \o setUint16(buffer.numberOfChannels * 2) \o setUint16(16)
       \o setUint32(DATA) \o setUint32(bufferLength - 40 - 4)
       \o interleaved(buffer)

\* The buffers of at most MaxChannels channels and MaxFrames frames.
AudioBuffers ==
    UNION { { [ numberOfChannels |-> c, sampleRate |-> r, length |-> f,
                channels |-> ch ] :
              ch \in [ 1..c -> [ 1..f -> Samples ] ] } :
            c \in 1..MaxChannels, f \in 0..MaxFrames, r \in SampleRates }

\* The buffer of the OfflineAudioContext of handleExport: two channels,
\* sampleRate * globalDuration frames; here one of silence.
offlineBuffer(sampleRate, duration) ==
    [ numberOfChannels |-> 2, sampleRate |-> sampleRate,
      length |-> (sampleRate * duration) \div 100,
      channels |-> [ c \in 1..2 |->
                       [ i \in 1..((sampleRate * duration) \div 100) |-> 0 ] ] ]

\* --------------------------------------------------------------------- Scene
\* Lengths of the scene are whole tenths of a unit: the stage radius 10 is
\* 100.  A length that falls between two grid values is taken as the next one
\* up, and a scaled coordinate as the next one towards zero.
Vec(x, y, z) == [ x |-> x, y |-> y, z |-> z ]
Add(a, b) == Vec(a.x + b.x, a.y + b.y, a.z + b.z)
Sub(a, b) == Vec(a.x - b.x, a.y - b.y, a.z - b.z)
LengthSq(v) == v.x * v.x + v.y * v.y + v.z * v.z

\* THREE.Vector3.length().
Length(v) ==
    CHOOSE r \in 0..MaxLength :
        /\ r * r >= LengthSq(v)
        /\ r = 0 \/ (r - 1) * (r - 1) < LengthSq(v)

Toward0(a, b) == IF a >= 0 THEN a \div b ELSE -((-a) \div b)

\* THREE.Vector3.setLength(): normalize() leaves the zero vector alone.
setLength(v, len) ==
    IF LengthSq(v) = 0 THEN v
    ELSE Vec(Toward0(v.x * len, Length(v)),
             Toward0(v.y * len, Length(v)),
             Toward0(v.z * len, Length(v)))

\* THREE.MathUtils.lerp(a, b, 0.1).
lerp(a, b) == a + Toward0(b - a, LERP_STEPS)

\* The scene with the App's mode, as the handlers of the scene see them.
SceneNow ==
    [ is3DMode |-> is3DMode, meshes |-> meshes, panners |-> panners,
      selectedObject |-> selectedObject,
      scrollTargetDistance |-> scrollTargetDistance ]

\* handleSourceMove / handleTrackMove: the position is the target of the
\* ramp of the track's panner.  The track of a mesh exists and the audio
\* context is set up, as they are once a file has been imported.
onSourceMove(s, id) == [ s EXCEPT !.panners = (id :> s.meshes[id]) @@ @ ]

\* The mesh effect, for a source that has no mesh yet: a point of the sphere
\* of radius 10, moved to the plane in 2D mode.
createMesh(s, id, point) ==
    onSourceMove(
        [ s EXCEPT !.meshes =
            (id :> IF s.is3DMode THEN point ELSE [ point EXCEPT !.y = 0 ]) @@ @ ],
        id)

\* onPointerDown over a mesh.  The scene that scrolls smoothly also takes the
\* mesh for scrolling, at its present distance.
onPointerDown(s, smooth, id) ==
    [ s EXCEPT !.selectedObject = id,
               !.scrollTargetDistance =
                   IF smooth THEN Length(s.meshes[id]) ELSE @ ]

\* A drag that stores the point under the pointer as it is.
onPointerMoveWithoutClamp(s, smooth, newPosition) ==
    IF s.selectedObject = NULL THEN s
    ELSE LET zeroed == IF s.is3DMode THEN newPosition
                       ELSE [ newPosition EXCEPT !.y = 0 ]
             moved == [ s EXCEPT !.meshes[s.selectedObject] = zeroed,
                                 !.scrollTargetDistance =
                                     IF smooth THEN Length(zeroed) ELSE @ ]
         IN onSourceMove(moved, s.selectedObject)

\* onPointerMove while a mesh is dragged; newPosition is the point of the
\* drag plane under the pointer, less the offset of the grab.
onPointerMove(s, smooth, newPosition) ==
    IF s.selectedObject = NULL THEN s
    ELSE LET clamped == IF LengthSq(newPosition) > STAGE_RADIUS * STAGE_RADIUS
                        THEN setLength(newPosition, STAGE_RADIUS)
                        ELSE newPosition
             zeroed == IF s.is3DMode THEN clamped ELSE [ clamped EXCEPT !.y = 0 ]
             moved == [ s EXCEPT !.meshes[s.selectedObject] = zeroed,
                                 !.scrollTargetDistance =
                                     IF smooth THEN Length(zeroed) ELSE @ ]
         IN onSourceMove(moved, s.selectedObject)

\* onWindowPointerUp.
onWindowPointerUp(s) ==
    [ s EXCEPT !.selectedObject = NULL, !.scrollTargetDistance = NULL ]

\* onWheel of the scene that scrolls smoothly: only the target distance moves.
onWheelSmooth(s, deltaY) ==
    IF ~s.is3DMode \/ s.selectedObject = NULL THEN s
    ELSE LET from == IF s.scrollTargetDistance = NULL
                     THEN Length(s.meshes[s.selectedObject])
                     ELSE s.scrollTargetDistance
         IN [ s EXCEPT !.scrollTargetDistance =
                Max2(MIN_SCROLL_DISTANCE,
                     Min2(from - deltaY \div SMOOTH_WHEEL_DIVISOR, STAGE_RADIUS)) ]

\* onWheel of the other scene: the mesh moves along the line from the camera,
\* between 1 and 30 away from it, and is brought back into the stage.
onWheel(s, deltaY, camera) ==
    IF ~s.is3DMode \/ s.selectedObject = NULL THEN s
    ELSE LET direction == Sub(s.meshes[s.selectedObject], camera)
             newDistance ==
                 Max2(MIN_CAMERA_DISTANCE,
                      Min2(Length(direction) - deltaY \div WHEEL_DIVISOR,
                           MAX_CAMERA_DISTANCE))
             position == Add(camera, setLength(direction, newDistance))
             clamped == IF LengthSq(position) > STAGE_RADIUS * STAGE_RADIUS
                        THEN setLength(position, STAGE_RADIUS)
                        ELSE position
         IN onSourceMove([ s EXCEPT !.meshes[s.selectedObject] = clamped ],
                         s.selectedObject)

\* One frame of the scene that scrolls smoothly: a tenth of the way to the
\* target distance, while the two differ by more than 0.01.
animateScene(s) ==
    IF s.selectedObject = NULL \/ s.scrollTargetDistance = NULL THEN s
    ELSE LET position == s.meshes[s.selectedObject]
             currentLength == Length(position)
         IN IF currentLength = s.scrollTargetDistance THEN s
            ELSE onSourceMove(
                   [ s EXCEPT !.meshes[s.selectedObject] =
                       setLength(position, lerp(currentLength, s.scrollTargetDistance)) ],
                   s.selectedObject)

RECURSIVE projectMeshes(_, _)
\* The 2D branch of the mode effect, mesh by mesh.
projectMeshes(s, ids) ==
    IF ids = {} THEN s
    ELSE LET id == CHOOSE i \in ids : \A j \in ids : i <= j
             flat == [ s.meshes[id] EXCEPT !.y = 0 ]
             newPosition == IF LengthSq(flat) > STAGE_RADIUS * STAGE_RADIUS
                            THEN setLength(flat, STAGE_RADIUS)
                            ELSE flat
         IN projectMeshes(
                IF s.meshes[id].y # 0
                THEN onSourceMove([ s EXCEPT !.meshes[id] = newPosition ], id)
                ELSE s,
                ids \ {id})

\* A switch of mode that leaves the meshes where they are.
onModeToggleWithoutProjection(s, mode) == [ s EXCEPT !.is3DMode = mode ]

\* onModeToggle, and the mode effect of the render that follows.
onModeToggle(s, mode) ==
    IF mode THEN [ s EXCEPT !.is3DMode = TRUE ]
    ELSE projectMeshes([ s EXCEPT !.is3DMode = FALSE ], DOMAIN s.meshes)

\* -------------------------------------------------------------------- actions
AppMounted(maxEvents) ==
    /\ soundSources = << >>
    /\ tracks = << >>
    /\ trackClips = << >>
    /\ handles = << >>
    /\ nodes = << >>
    /\ isPlaying = FALSE
    /\ isLoading = FALSE
    /\ currentTime = 0
    /\ globalDuration = 0
    /\ selectedClipId = NULL
    /\ clipboard = << >>
    /\ startOffset = 0
    /\ startTime = 0
    /\ audioContext = FALSE
    /\ now = 0
    /\ drag = << >>
    /\ imports = << >>
    /\ exports = << >>
    /\ last = [ op |-> "init", arg |-> NULL, calls |-> << >> ]
    /\ budget = maxEvents
    /\ pendingFrame = << >>

\* The scene as mounted: 3D mode, no mesh, nothing held.
SceneMounted(smooth) ==
    /\ is3DMode = TRUE
    /\ meshes = << >>
    /\ panners = << >>
    /\ selectedObject = NULL
    /\ scrollTargetDistance = NULL
    /\ smoothScroll = smooth

\* No export has rendered a buffer.
NothingRendered == renderedBuffer = << >> /\ wavBlob = << >>

InitWith(maxEvents) ==
    AppMounted(maxEvents) /\ SceneMounted(FALSE) /\ NothingRendered

\* The App as mounted: no sources, no tracks, stopped at 0.
Init == InitWith(MaxEvents)
InitTransport == InitWith(MaxTransportEvents)
InitEdit == InitWith(MaxEditEvents)

FileLists(maxFiles) == UNION { [ 1..n -> Durations \cup {BAD} ] : n \in 1..maxFiles }
Decodable(files) == Cardinality({ i \in DOMAIN files : files[i] # BAD })

\* The file input's change event.
ImportStart(maxTracks) ==
    \E files \in FileLists(MaxFiles) :
        /\ drag = << >>
        /\ Len(imports) < MaxInflight
        /\ Len(tracks) + Decodable(files) <= maxTracks
        /\ Commit("importStart", files, handleFilesStart(World, World, files))

ImportFinish ==
    \E i \in DOMAIN imports : Commit("importFinish", i, handleFilesFinish(World, i))

\* An import during which no other event arrives.
Import(maxTracks) ==
    \E files \in FileLists(MaxFiles) :
        /\ drag = << >>
        /\ imports = << >>
        /\ Len(tracks) + Decodable(files) <= maxTracks
        /\ LET w == handleFilesStart(World, World, files)
           IN Commit("import", files, handleFilesFinish(w, Len(w.imports)))

\* playAudio of the current render is called (space bar, play button); it
\* returns at once when already playing.
Play ==
    /\ Cardinality({ n \in DOMAIN nodes : Active(nodes[n], now) }) <= MaxOrphans
    /\ Commit("play", NULL, playAudio(World, World))

\* pauseAudio of the current render is called (space bar, pause button); it
\* returns at once when not playing.
Pause ==
    \E cl \in {World} : Commit("pause", NULL, pauseAudio(cl, cl))

\* The animation frame callback runs while the isPlaying effect is mounted.
Tick ==
    /\ isPlaying
    /\ Commit("tick", NULL, animate(World, World))

\* A pointer on the timeline's ruler or lanes.
Seek(times) ==
    \E t \in times :
        /\ drag = << >>
        /\ Commit("seek", t, handleSeek(World, World, t))

\* The audio clock advances.
Advance(steps, maxClock) ==
    \E d \in steps :
        /\ now + d <= maxClock
        /\ Commit("advance", d, [ World EXCEPT !.now = @ + d ])

\* A pointer goes down on a rendered clip (body: move, or gain with shift;
\* left and right handles: the trims). One pointer at a time.
PointerDown(types) ==
    \E c \in AllClips, type \in types :
        /\ drag = << >>
        /\ SourceDuration(World, c.sourceId) # NULL
        /\ Commit("pointerDown", type, handlePointerDown(World, World, c, type))

PointerMove(deltas, gains) ==
    \E d \in deltas \cup gains :
        /\ drag # << >>
        /\ d \in (IF drag[1].type = "gain" THEN gains ELSE deltas)
        /\ LET w == handlePointerMove(World, d)
           IN /\ \A c \in ClipsOf(w, w.tracks) : c.startTime + c.duration <= MaxTime
              /\ Commit("pointerMove", d, w)

PointerUp ==
    /\ drag # << >>
    /\ Commit("pointerUp", NULL, handlePointerUp(World))

\* The playhead is inside the selected clip, clear of both its ends.
isSlicePossible(cl) ==
    \E c \in ClipsOf(cl, cl.tracks) :
        /\ c.id = cl.selectedClipId
        /\ c = SelectSeq(FlatClips(cl.tracks, cl.trackClips),
                         LAMBDA k : k.id = cl.selectedClipId)[1]
        /\ cl.currentTime > c.startTime + SLICE_MARGIN
        /\ cl.currentTime < c.startTime + c.duration - SLICE_MARGIN

\* The slice command (the S key or the toolbar button), offered while a
\* slice is possible.
Slice ==
    /\ isSlicePossible(World)
    /\ \A t \in Range(tracks) : Len(trackClips[t.obj]) < MaxClipsPerTrack
    /\ Commit("slice", selectedClipId, handleSliceClip(World, World))

\* The slice command as the timeline is handed it (onSliceClip), which the
\* App does not gate: it may arrive when no slice is possible.
TimelineSlice ==
    /\ ~isSlicePossible(World)
    /\ Commit("slice", selectedClipId, handleSliceClip(World, World))

\* keydown, Ctrl/Cmd+C
Copy ==
    \E cl \in {World} : Commit("copy", NULL, handleCopy(cl, cl))

\* keydown, Ctrl/Cmd+V
Paste ==
    /\ \A t \in Range(tracks) : Len(trackClips[t.obj]) < MaxClipsPerTrack
    /\ LET w == handlePaste(World, World)
       IN /\ \A c \in ClipsOf(w, w.tracks) : c.startTime + c.duration <= MaxTime
          /\ Commit("paste", NULL, w)

\* keydown, Delete or Backspace
DeleteClip ==
    /\ selectedClipId # NULL
    /\ Commit("deleteClip", selectedClipId, handleDeleteClip(World, selectedClipId))

\* The delete button of a row of the tracks list.
DeleteTrack ==
    \E t \in Range(tracks) :
        /\ drag = << >>
        /\ Commit("deleteTrack", t.id, handleDeleteTrack(World, World, t.id))

\* The whole editor: every command, imports that other events interleave with.
Next ==
    \/ ImportStart(MaxTracks)
    \/ ImportFinish
    \/ Play
    \/ Pause
    \/ Tick
    \/ Seek(SeekTimes)
    \/ Advance(ClockSteps, MaxClock)
    \/ PointerDown(DragTypes)
    \/ PointerMove(DragDeltas, GainDeltas)
    \/ PointerUp
    \/ Slice
    \/ TimelineSlice
    \/ Copy
    \/ Paste
    \/ DeleteClip
    \/ DeleteTrack

Spec == Init /\ [][Next]_vars

\* The transport: play, pause, seek and the animation frame over clips that
\* moves and left trims have placed anywhere on the timeline.
NextTransport ==
    \/ Import(MaxTracks)
    \/ Play
    \/ Pause
    \/ Tick
    \/ Seek(TransportSeeks)
    \/ Advance(ClockSteps, MaxClock)
    \/ PointerDown(TransportDrags)
    \/ PointerMove(TransportDeltas, {})
    \/ PointerUp

SpecTransport == InitTransport /\ [][NextTransport]_vars

\* Editing while stopped: the clips of one track dragged, sliced and pasted.
NextEdit ==
    \/ Import(EditTracks)
    \/ Seek(EditSeeks)
    \/ PointerDown(DragTypes)
    \/ PointerMove(DragDeltas, GainDeltas)
    \/ PointerUp
    \/ Slice
    \/ TimelineSlice
    \/ Copy
    \/ Paste

SpecEdit == InitEdit /\ [][NextEdit]_vars

\* Playback left to run: the commands of the transport come first, as many as
\* the run has, and the frames of the isPlaying effect and the audio clock are
\* not counted among them. The effect asks for the next frame at the end of
\* every frame (requestAnimationFrame), and the clock of a running audio
\* context never stops: both are weakly fair.
InitPlayback == InitWith(MaxPlaybackEvents)

\* A frame of the isPlaying effect.
Frame ==
    /\ isPlaying
    /\ \E w \in {animate(World, World)} : Render("tick", NULL, w)
    /\ UNCHANGED budget

\* The audio clock advances under a playback that has not reached the end of
\* the timeline (past the end, the time it shows changes nothing).
ClockRuns(steps) ==
    \E d \in steps :
        /\ isPlaying
        /\ startOffset + (now - startTime) < globalDuration
        /\ \E w \in {[ World EXCEPT !.now = @ + d ]} : Render("advance", d, w)
        /\ UNCHANGED budget

NextPlayback ==
    \/ Import(MaxTracks)
    \/ Play
    \/ Pause
    \/ Seek(TransportSeeks)
    \/ PointerDown(TransportDrags)
    \/ PointerMove(TransportDeltas, {})
    \/ PointerUp
    \/ Frame
    \/ ClockRuns(ClockSteps)

SpecPlayback ==
    /\ InitPlayback
    /\ [][NextPlayback]_vars
    /\ WF_vars(Frame)
    /\ WF_vars(ClockRuns(ClockSteps))

\* Imports of several files at once and exports, in flight together.
InitLoad == InitWith(MaxLoadEvents)

BatchLists == UNION { [ 1..n -> BatchDurations \cup {BAD} ] : n \in 1..MaxBatch }

\* The file input's change event, with several files chosen.
BatchImportStart ==
    \E files \in BatchLists :
        /\ drag = << >>
        /\ Len(imports) < MaxLoadInflight
        /\ Len(tracks) + Decodable(files) <= MaxLoadTracks
        /\ Commit("importStart", files, handleFilesStart(World, World, files))

\* The export button of the timeline.
ExportStart ==
    /\ Len(exports) < MaxExports
    /\ Commit("exportStart", NULL, handleExportStart(World, World))

\* startRendering() settles: the buffer is rendered, or the backend throws.
ExportFinish ==
    \E i \in DOMAIN exports, rendered \in BOOLEAN :
        Commit("exportFinish", rendered, handleExportFinish(World, i, rendered))

\* The last await of a handleFiles call resumes.
BatchImportFinish ==
    \E i \in DOMAIN imports :
        Commit("importFinish", [ index |-> i, files |-> imports[i].files ],
               handleFilesFinish(World, i))

NextLoad ==
    \/ BatchImportStart
    \/ BatchImportFinish
    \/ ExportStart
    \/ ExportFinish
    \/ PointerDown({"move"})
    \/ PointerUp
    \/ DeleteClip

SpecLoad == InitLoad /\ [][NextLoad]_vars

\* The scene alone: sources appear, meshes are dragged and scrolled, the mode
\* is switched.
InitScene ==
    /\ AppMounted(MaxSceneEvents)
    /\ \E smooth \in BOOLEAN : SceneMounted(smooth)
    /\ NothingRendered

\* One event of the scene handled; the App but for its mode is left alone.
SceneStep(op, arg, s) ==
    /\ budget > 0
    /\ budget' = budget - 1
    /\ last' = [ op |-> op, arg |-> arg, calls |-> << >> ]
    /\ is3DMode' = s.is3DMode
    /\ meshes' = s.meshes
    /\ panners' = s.panners
    /\ selectedObject' = s.selectedObject
    /\ scrollTargetDistance' = s.scrollTargetDistance
    /\ UNCHANGED << soundSources, tracks, trackClips, handles, nodes, isPlaying,
                    isLoading, currentTime, globalDuration, selectedClipId,
                    clipboard, startOffset, startTime, audioContext, now, drag,
                    imports, exports, smoothScroll, renderedBuffer, wavBlob,
                    pendingFrame >>

\* A source is added, and the mesh effect gives it a mesh.
SourceAdded ==
    \E id \in (1..MaxMeshes) \ DOMAIN meshes, point \in SpherePoints :
        SceneStep("createMesh", point, createMesh(SceneNow, id, point))

MeshPointerDown ==
    \E id \in DOMAIN meshes :
        /\ selectedObject = NULL
        /\ SceneStep("meshPointerDown", id, onPointerDown(SceneNow, smoothScroll, id))

MeshPointerMove ==
    \E newPosition \in DragPoints :
        /\ selectedObject # NULL
        /\ SceneStep("meshPointerMove", newPosition,
                     onPointerMove(SceneNow, smoothScroll, newPosition))

MeshPointerUp ==
    /\ selectedObject # NULL
    /\ SceneStep("meshPointerUp", NULL, onWindowPointerUp(SceneNow))

Wheel ==
    \E deltaY \in WheelDeltas, camera \in Cameras :
        /\ selectedObject # NULL
        /\ SceneStep("wheel", [ deltaY |-> deltaY, camera |-> camera ],
                     IF smoothScroll THEN onWheelSmooth(SceneNow, deltaY)
                     ELSE onWheel(SceneNow, deltaY, camera))

\* A frame of the scene that scrolls smoothly, when it has a way to go.
SceneFrame ==
    /\ smoothScroll
    /\ animateScene(SceneNow) # SceneNow
    /\ SceneStep("sceneFrame", NULL, animateScene(SceneNow))

ModeToggle ==
    SceneStep("modeToggle", ~is3DMode, onModeToggle(SceneNow, ~is3DMode))

NextScene ==
    \/ SourceAdded
    \/ MeshPointerDown
    \/ MeshPointerMove
    \/ MeshPointerUp
    \/ Wheel
    \/ SceneFrame
    \/ ModeToggle

SpecScene == InitScene /\ [][NextScene]_vars

\* The encoder alone: startRendering() hands a buffer over, and bufferToWav
\* makes the bytes of the download.
InitWav == InitWith(MaxEvents)

AppVars ==
    << soundSources, tracks, trackClips, handles, nodes, isPlaying, isLoading,
       currentTime, globalDuration, selectedClipId, clipboard, startOffset,
       startTime, audioContext, now, drag, imports, exports, pendingFrame,
       last, budget >>
SceneVars ==
    << is3DMode, meshes, panners, selectedObject, scrollTargetDistance,
       smoothScroll >>

\* Any buffer the backend may render.
Rendered ==
    \E buffer \in AudioBuffers :
        /\ renderedBuffer = << >>
        /\ renderedBuffer' = << buffer >>
        /\ UNCHANGED << wavBlob, AppVars, SceneVars >>

\* The buffer of an export of a timeline of silence.
RenderedTimeline ==
    \E sampleRate \in ExportRates, duration \in ExportDurations :
        /\ renderedBuffer = << >>
        /\ renderedBuffer' = << offlineBuffer(sampleRate, duration) >>
        /\ UNCHANGED << wavBlob, AppVars, SceneVars >>

Encoded ==
    /\ renderedBuffer # << >>
    /\ wavBlob = << >>
    /\ wavBlob' = bufferToWav(renderedBuffer[1])
    /\ UNCHANGED << renderedBuffer, AppVars, SceneVars >>

NextWav ==
    \/ Rendered
    \/ RenderedTimeline
    \/ Encoded

SpecWav == InitWav /\ [][NextWav]_vars

\* The frames of a playback that ends: the animate that ends it requests one
\* more frame, which runs with the render it closes over unless the effect
\* has cancelled it first.  Until then no other event is handled.
InitFrames == InitWith(MaxFrameEvents)

FramesImport == pendingFrame = << >> /\ Import(MaxTracks)
FramesPlay == pendingFrame = << >> /\ Play
FramesPause == pendingFrame = << >> /\ Pause
FramesSeek == pendingFrame = << >> /\ Seek(TransportSeeks)

\* The animation frame callback of the playing render; when it ends the
\* playback, the frame it requests last is left pending.
FramesTick ==
    /\ isPlaying
    /\ pendingFrame = << >>
    /\ budget > 0
    /\ budget' = budget - 1
    /\ RenderApp("tick", NULL, animate(World, World))
    /\ pendingFrame' =
          IF audioContext /\ startOffset + (now - startTime) >= globalDuration
          THEN << [ isPlaying |-> isPlaying, globalDuration |-> globalDuration,
                    tracks |-> tracks ] >>
          ELSE << >>

\* The pending frame runs, and requests the next one.
StaleFrame ==
    /\ pendingFrame # << >>
    /\ budget > 0
    /\ budget' = budget - 1
    /\ RenderApp("staleTick", NULL, animate(pendingFrame[1], World))
    /\ UNCHANGED pendingFrame

\* The effect of the render with isPlaying false cancels the pending frame.
FrameCancelled ==
    /\ pendingFrame # << >>
    /\ pendingFrame' = << >>
    /\ UNCHANGED << soundSources, tracks, trackClips, handles, nodes, isPlaying,
                    isLoading, currentTime, globalDuration, selectedClipId,
                    clipboard, startOffset, startTime, audioContext, now, drag,
                    imports, exports, last, budget, SceneVars, renderedBuffer,
                    wavBlob >>

NextFrames ==
    \/ FramesImport
    \/ FramesPlay
    \/ FramesPause
    \/ FramesSeek
    \/ Advance(ClockSteps, MaxClock)
    \/ FramesTick
    \/ StaleFrame
    \/ FrameCancelled

SpecFrames == InitFrames /\ [][NextFrames]_vars


\* ===================================================================== claims
Clamp(t, lo, hi) == Max2(lo, Min2(t, hi))
HoldsLiveHandle(c) == handles[c.obj].sourceNode # NULL
Starts(calls) == { calls[k] : k \in { i \in DOMAIN calls : calls[i].cmd = "start" } }
\* Everything but the history variables.
state == << soundSources, tracks, trackClips, handles, nodes, isPlaying, isLoading,
            currentTime, globalDuration, selectedClipId, clipboard, startOffset,
            startTime, audioContext, now, drag, imports, exports >>

\* C1: a seek made while Playing leaves the transport Playing, with
\* startOffset the clamped target and live handles on exactly the clips that
\* end after it.
SeekWhilePlayingResumes ==
    [][ (last'.op = "seek" /\ isPlaying) =>
          /\ isPlaying'
          /\ startOffset' = Clamp(last'.arg, 0, globalDuration)
          /\ \A c \in AllClips' :
                 (handles'[c.obj].sourceNode # NULL)
                     <=> (c.startTime + c.duration > startOffset') ]_vars

\* C2: a frame that runs while Playing and finds the position at or past the
\* end of the timeline leaves the transport Stopped, rewound to 0.
TickAtEndRewinds ==
    [][ (last'.op = "tick" /\ isPlaying
           /\ startOffset + (now - startTime) >= globalDuration) =>
          /\ ~isPlaying'
          /\ startOffset' = 0
          /\ currentTime' = 0 ]_vars

\* A frame has just stopped a playback that was started at the very end of
\* the timeline (seek to the end, then play, no clock time elapsed).
TickAtEndWitness ==
    /\ last.op = "tick"
    /\ ~isPlaying
    /\ globalDuration > 0
    /\ now = startTime
    /\ startOffset = 0
    /\ currentTime = 0

\* C3: play from offset S starts exactly the clips that end after S, each
\* at when = clock + max(0, startTime - S), reading from
\* offset + max(0, S - startTime) for duration - max(0, S - startTime), so the
\* read window ends where the clip's window ends and never begins before it.
PlaySchedulesAudibleWindow ==
    [][ (last'.op = "play" /\ ~isPlaying /\ audioContext /\ Len(tracks) > 0) =>
          LET S == startOffset
              started == Starts(last'.calls)
          IN /\ \A c \in AllClips :
                    (c.startTime + c.duration > S)
                        <=> (\E st \in started : st.clip = c.id)
             /\ \A st \in started : \E c \in AllClips :
                    /\ c.id = st.clip
                    /\ st.when = startTime' + Max2(0, c.startTime - S)
                    /\ st.offset = c.offset + Max2(0, S - c.startTime)
                    /\ st.duration = c.duration - Max2(0, S - c.startTime)
                    /\ st.offset + st.duration = c.offset + c.duration
                    /\ st.offset >= c.offset
                    /\ st.duration > 0
             /\ \A c \in AllClips' :
                    (\E st \in started : st.clip = c.id) =>
                        /\ handles'[c.obj].sourceNode # NULL
                        /\ \E st \in started :
                               /\ st.clip = c.id
                               /\ nodes'[handles'[c.obj].sourceNode].when = st.when
                               /\ nodes'[handles'[c.obj].sourceNode].offset = st.offset
                               /\ nodes'[handles'[c.obj].sourceNode].duration
                                      = st.duration ]_vars

\* A play has just started one clip later than the clock (it begins after the
\* playhead), another from inside its window (the playhead is already in it).
PlayWitness ==
    /\ last.op = "play"
    /\ isPlaying
    /\ \E st \in Starts(last.calls) : st.when > startTime
    /\ \E st \in Starts(last.calls) : \E c \in AllClips :
           c.id = st.clip /\ st.offset > c.offset

\* C4: pause while Playing stops the transport and adds the elapsed clock
\* time to startOffset (nothing when none has elapsed); pause while Stopped
\* changes nothing.
PauseKeepsPosition ==
    [][ (last'.op = "pause") =>
          IF isPlaying
          THEN /\ ~isPlaying'
               /\ startOffset' = startOffset + (now - startTime)
               /\ (now = startTime => startOffset' = startOffset)
          ELSE UNCHANGED state ]_vars

\* A pause has just stopped a playback that had run for some clock time from
\* an offset other than 0.
PauseWitness ==
    /\ last.op = "pause"
    /\ ~isPlaying
    /\ last.calls # << >>
    /\ now > startTime
    /\ startOffset > now - startTime

\* C5: whenever the transport is Stopped, no clip of the model holds a live
\* source handle or a live gain handle.
StoppedClipsHoldNoHandles ==
    ~isPlaying => \A c \in AllClips : handles[c.obj] = NoHandles

\* C6: every started source that has not been stopped and still has sound to
\* give is the live source handle of some clip of the model.
NoOrphanedLiveNodes ==
    \A n \in DOMAIN nodes :
        Active(nodes[n], now) => \E c \in AllClips : handles[c.obj].sourceNode = n

\* C7: a deleteClip or deleteTrack that removes a clip holding a live source
\* handle issues the stop of that handle before it changes the tracks.
DeleteStopsBeforeRemoving ==
    [][ (last'.op \in {"deleteClip", "deleteTrack"}) =>
          \A c \in AllClips :
              (HoldsLiveHandle(c) /\ ~(\E k \in AllClips' : k.id = c.id)) =>
                  \E i, j \in DOMAIN last'.calls :
                      /\ i < j
                      /\ last'.calls[i].cmd = "stop"
                      /\ last'.calls[i].clip = c.id
                      /\ last'.calls[j].cmd = "setTracks" ]_vars

\* C8: every clip starts at or after 0.
ClipStartsNonNegative == \A c \in AllClips : c.startTime >= 0

\* C9: every clip's read window ends within its source buffer.
ClipWithinSource ==
    \A c \in AllClips : c.offset + c.duration <= SourceDuration(World, c.sourceId)

\* C10: every clip is at least MIN_CLIP_LEN long.
ClipAtLeastMinLen == \A c \in AllClips : c.duration >= MIN_CLIP_LEN

\* The clip of the tracks state with the given id.
ClipById(id) == CHOOSE c \in AllClips : c.id = id
HasClip(id) == \E c \in AllClips : c.id = id

\* C11: every clip has offset >= 0, and a left trim dragged by dTime <= -offset
\* leaves the clip with offset 0.
OffsetNonNegative ==
    [][ /\ \A c \in AllClips' : c.offset >= 0
        /\ (last'.op = "pointerMove" /\ drag # << >> /\ drag[1].type = "trimStart"
              /\ last'.arg <= -drag[1].originalClip.offset) =>
               \A c \in AllClips' :
                   c.id = drag[1].originalClip.id => c.offset = 0 ]_vars

\* A left trim has just been dragged far to the left on a clip that had been
\* trimmed before: its offset is back at 0.
OffsetWitness ==
    /\ last.op = "pointerMove"
    /\ drag # << >>
    /\ drag[1].type = "trimStart"
    /\ drag[1].originalClip.offset > 0
    /\ last.arg < -drag[1].originalClip.offset
    /\ HasClip(drag[1].originalClip.id)
    /\ ClipById(drag[1].originalClip.id).offset = 0

\* A clip without the identity of the object that holds it.
Val(c) == [ c EXCEPT !.obj = NULL ]
Vals(clips) == { Val(c) : c \in clips }
\* The clip a slice command acts on, and where in it the playhead is.
SliceTarget == ClipById(selectedClipId)
SliceOffsetInClip == currentTime - SliceTarget.startTime

\* C12: a slice of clip C at playhead T > 0 leaves C with its id, startTime and
\* offset and with duration T - C.startTime, followed by one clip with a new
\* id, startTime T and offset C.offset + (T - C.startTime); the two durations
\* add up to C's, the second reads on where the first stops, both keep C's
\* gain, source, track and name, and C's track holds exactly one clip more.
SliceIsExact ==
    [][ (last'.op = "slice" /\ HasClip(selectedClipId)
           /\ currentTime > 0
           /\ SliceOffsetInClip > SLICE_MARGIN
           /\ SliceOffsetInClip < SliceTarget.duration - SLICE_MARGIN) =>
          LET C == SliceTarget
              T == currentTime
              first == [ Val(C) EXCEPT !.duration = T - C.startTime ]
              new == { c \in AllClips' : c.id \notin { k.id : k \in AllClips } }
          IN /\ first \in Vals(AllClips')
             /\ Cardinality(new) = 1
             /\ \A second \in new :
                    /\ second.startTime = T
                    /\ second.offset = C.offset + (T - C.startTime)
                    /\ first.duration + second.duration = C.duration
                    /\ second.offset = first.offset + first.duration
                    /\ second.gain = C.gain
                    /\ second.sourceId = C.sourceId
                    /\ second.trackId = C.trackId
                    /\ second.name = C.name
                    /\ Vals(AllClips') = (Vals(AllClips) \ {Val(C)})
                                             \cup {first, Val(second)}
             /\ \A i \in DOMAIN tracks :
                    /\ tracks'[i].id = tracks[i].id
                    /\ Len(trackClips'[tracks'[i].obj])
                         = Len(trackClips[tracks[i].obj])
                             + (IF C \in Range(trackClips[tracks[i].obj])
                                THEN 1 ELSE 0) ]_vars

\* A clip that had been trimmed on the left has just been sliced: two clips
\* meet at the playhead, the second reading on where the first stops.
SliceWitness ==
    /\ last.op = "slice"
    /\ \E a, b \in AllClips :
           /\ a.id # b.id
           /\ a.offset > 0
           /\ b.startTime = currentTime
           /\ b.startTime = a.startTime + a.duration
           /\ b.offset = a.offset + a.duration

\* The playhead is inside the selected clip, more than the margin from both
\* of its edges.
PlayheadInsideSelected ==
    /\ HasClip(selectedClipId)
    /\ SliceOffsetInClip > SLICE_MARGIN
    /\ SliceOffsetInClip < SliceTarget.duration - SLICE_MARGIN

\* C13: a slice command given while the playhead is not inside the selected
\* clip, clear of its edges, changes no track, no clip and not globalDuration.
RejectedSliceChangesNothing ==
    [][ (last'.op = "slice" /\ ~PlayheadInsideSelected) =>
          /\ tracks' = tracks
          /\ trackClips' = trackClips
          /\ handles' = handles
          /\ soundSources' = soundSources
          /\ globalDuration' = globalDuration ]_vars

\* A slice command has just been given for the only clip there is, with the
\* playhead on or outside an edge of it: the clip is still the only one.
RejectedSliceWitness ==
    /\ last.op = "slice"
    /\ HasClip(last.arg)
    /\ Cardinality(AllClips) = 1
    /\ currentTime > 0
    /\ \/ currentTime - ClipById(last.arg).startTime <= SLICE_MARGIN
       \/ currentTime - ClipById(last.arg).startTime
              >= ClipById(last.arg).duration - SLICE_MARGIN

\* C14: globalDuration is the latest end of any clip of any track, 0 when
\* there is none, after every edit.
GlobalDurationIsLatestEnd ==
    globalDuration = SetMax({0} \cup { c.startTime + c.duration : c \in AllClips })

\* A drag has just changed where the timeline ends.
GlobalDurationWitness ==
    /\ last.op = "pointerMove"
    /\ AllClips # {}
    /\ \E c \in AllClips : c.startTime > 0 /\ c.startTime + c.duration = globalDuration
    /\ \A d \in Durations : globalDuration # d

\* Where the transport is on the timeline.
Position == IF isPlaying THEN startOffset + (now - startTime) ELSE startOffset

\* C15: an edit that makes the timeline shorter leaves the transport's
\* position, and the position shown, within 0 .. globalDuration.
ShrinkClampsPosition ==
    [][ (last'.op \in {"pointerMove", "deleteClip", "deleteTrack"}
           /\ globalDuration' < globalDuration) =>
          /\ 0 <= Position' /\ Position' <= globalDuration'
          /\ 0 <= currentTime' /\ currentTime' <= globalDuration' ]_vars

\* C16: while the transport is Stopped the position shown, currentTime, is
\* startOffset.
StoppedShowsStartOffset == ~isPlaying => currentTime = startOffset

\* C17: a seek to t while Stopped sets startOffset and currentTime to t
\* clamped to 0 .. globalDuration, starts and stops no source and changes no
\* track, clip or handle; the same seek given again would set the same
\* position.
SeekWhileStoppedSetsPosition ==
    [][ (last'.op = "seek" /\ ~isPlaying) =>
          /\ startOffset' = Clamp(last'.arg, 0, globalDuration)
          /\ currentTime' = Clamp(last'.arg, 0, globalDuration)
          /\ Clamp(last'.arg, 0, globalDuration') = startOffset'
          /\ ~isPlaying'
          /\ last'.calls = << >>
          /\ UNCHANGED << soundSources, tracks, trackClips, handles, nodes,
                          globalDuration, startTime, selectedClipId, clipboard >> ]_vars

\* The first command after an import was a seek past the end of the timeline:
\* the position is the end of the timeline.
SeekWitness ==
    /\ last.op = "seek"
    /\ budget = MaxTransportEvents - 2
    /\ AllClips # {}
    /\ last.arg > globalDuration
    /\ startOffset = globalDuration
    /\ currentTime = globalDuration
    /\ ~isPlaying

\* C18: play changes nothing and starts no source when the transport is
\* already Playing or there is no track; otherwise it takes the clock as
\* startTime and the transport is Playing.
PlayIsGuarded ==
    [][ (last'.op = "play") =>
          IF isPlaying \/ Len(tracks) = 0
          THEN UNCHANGED state /\ last'.calls = << >>
          ELSE startTime' = now /\ isPlaying' ]_vars

\* Play has just been given again some clock time into a playback: the
\* playback goes on from where it was started.
PlayGuardWitness ==
    /\ last.op = "play"
    /\ last.calls = << >>
    /\ isPlaying
    /\ now > startTime
    /\ \E c \in AllClips : HoldsLiveHandle(c)
\* C19: playback terminates. A playback that no command or edit interrupts any
\* more, with the clock advancing and the frames firing, eventually is stopped
\* with the position and the time shown at 0.
PlaybackTerminates ==
    (isPlaying /\ budget = 0) ~>
        (~isPlaying /\ startOffset = 0 /\ currentTime = 0)

\* A frame has stopped, at 0, a playback that ran over clock time to the end
\* of a timeline with audio on it, after the last command.
PlaybackTerminatesWitness ==
    /\ budget = 0
    /\ last.op = "tick"
    /\ ~isPlaying
    /\ now > startTime
    /\ globalDuration > 0
    /\ startOffset = 0
    /\ currentTime = 0

\* C20: a left trim dragged by dTime moves the clip's start, offset and length
\* by d = clamp(dTime, -offset, duration - 0.1) of the clip the drag began on
\* (startTime + d, offset + d, duration - d), so that startTime - offset,
\* offset + duration and startTime + duration are those of that clip.
TrimStartKeepsRightEdge ==
    [][ (last'.op = "pointerMove" /\ drag # << >> /\ drag[1].type = "trimStart") =>
          LET o == drag[1].originalClip
              d == Clamp(last'.arg, -o.offset, o.duration - MIN_CLIP_LEN)
          IN \A c \in AllClips' :
                 c.id = o.id =>
                     /\ c.startTime = o.startTime + d
                     /\ c.offset = o.offset + d
                     /\ c.duration = o.duration - d
                     /\ c.startTime - c.offset = o.startTime - o.offset
                     /\ c.offset + c.duration = o.offset + o.duration
                     /\ c.startTime + c.duration = o.startTime + o.duration ]_vars

\* A left trim has just been dragged to the right, inside its range: the clip
\* starts later, and reads later in its source, by what the pointer moved.
TrimStartWitness ==
    /\ last.op = "pointerMove"
    /\ drag # << >>
    /\ drag[1].type = "trimStart"
    /\ last.arg > 0
    /\ HasClip(drag[1].originalClip.id)
    /\ ClipById(drag[1].originalClip.id).offset = drag[1].originalClip.offset + last.arg
    /\ ClipById(drag[1].originalClip.id).duration
           = drag[1].originalClip.duration - last.arg

\* C21: every clip has 0 <= gain <= 1.5, and a gain drag by dGain leaves the
\* clip with clamp(gain + dGain, 0, 1.5) of the clip the drag began on.
GainWithinRange ==
    [][ /\ \A c \in AllClips' : 0 <= c.gain /\ c.gain <= MAX_GAIN
        /\ (last'.op = "pointerMove" /\ drag # << >> /\ drag[1].type = "gain") =>
              \A c \in AllClips' :
                  c.id = drag[1].originalClip.id =>
                      c.gain = Clamp(drag[1].originalClip.gain + last'.arg, 0, MAX_GAIN) ]_vars

\* A gain drag has just pushed a clip that was already above 1.0 past the
\* top of the range: its gain is 1.5.
GainWitness ==
    /\ last.op = "pointerMove"
    /\ drag # << >>
    /\ drag[1].type = "gain"
    /\ drag[1].originalClip.gain > DEFAULT_GAIN
    /\ drag[1].originalClip.gain + last.arg > MAX_GAIN
    /\ HasClip(drag[1].originalClip.id)
    /\ ClipById(drag[1].originalClip.id).gain = MAX_GAIN

\* The started sources of the clip with the given id that still have sound
\* to give.
SoundingNodes(id) ==
    { n \in DOMAIN nodes : Active(nodes[n], now) /\ nodes[n].clip = id }

\* C22: every gain change a drag applies to a clip that is sounding sets the
\* gain of the clip's started source to the new gain, and issues no stop and
\* no start.
GainDragReachesLiveHandle ==
    [][ (last'.op = "pointerMove" /\ drag # << >> /\ drag[1].type = "gain"
           /\ HasClip(drag[1].originalClip.id)) =>
          LET id == drag[1].originalClip.id
              newGain == Clamp(drag[1].originalClip.gain + last'.arg, 0, MAX_GAIN)
          IN /\ last'.calls = << >>
             /\ \A n \in SoundingNodes(id) :
                    \E m \in DOMAIN nodes' :
                        nodes'[m] = [ nodes[n] EXCEPT !.gain = newGain ] ]_vars

\* C23: a move, a trim or a slice made while playing issues no start and no
\* stop, and every started source that still has sound to give keeps its
\* schedule (when, offset, duration) and its gain.
EditsKeepSchedule ==
    [][ (/\ isPlaying
         /\ \/ last'.op = "slice"
            \/ /\ last'.op = "pointerMove"
               /\ drag # << >>
               /\ drag[1].type \in {"move", "trimStart", "trimEnd"}) =>
          /\ last'.calls = << >>
          /\ isPlaying'
          /\ \A n \in DOMAIN nodes :
                 Active(nodes[n], now) => \E m \in DOMAIN nodes' : nodes'[m] = nodes[n] ]_vars

\* A clip that is sounding has just been sliced in two: its source plays on.
EditsKeepScheduleWitness ==
    /\ last.op = "slice"
    /\ isPlaying
    /\ \E a, b \in AllClips :
           /\ a.id # b.id
           /\ b.startTime = a.startTime + a.duration
           /\ b.offset = a.offset + a.duration
           /\ SoundingNodes(a.id) # {}

\* The clips of the track with the given id, without their objects.
TrackVals(id) ==
    { Val(c) : c \in UNION { Range(trackClips[t.obj]) : t \in { k \in Range(tracks) : k.id = id } } }

\* C24: copy stores the values of the selected clip, and nothing but a copy
\* changes what is stored; paste at playhead t adds exactly one clip to the
\* track the stored clip names, with a new id, startTime t, no live handles
\* and the stored offset, duration, gain and source, and leaves every other
\* clip as it was; when that track is gone, paste leaves tracks and clips
\* unchanged.
PasteClonesSnapshot ==
    [][ /\ (last'.op = "copy" /\ HasClip(selectedClipId)) =>
               clipboard' = << Val(ClipById(selectedClipId)) >>
        /\ (last'.op # "copy") => clipboard' = clipboard
        /\ (last'.op = "paste" /\ clipboard # << >>) =>
              LET P == clipboard[1]
                  new == { c \in AllClips' : c.id \notin { k.id : k \in AllClips } }
              IN IF \E t \in Range(tracks) : t.id = P.trackId
                 THEN /\ Cardinality(new) = 1
                      /\ Cardinality(AllClips') = Cardinality(AllClips) + 1
                      /\ \A c \in new :
                             /\ c.startTime = currentTime
                             /\ c.offset = P.offset
                             /\ c.duration = P.duration
                             /\ c.gain = P.gain
                             /\ c.sourceId = P.sourceId
                             /\ c.trackId = P.trackId
                             /\ handles'[c.obj] = NoHandles
                             /\ Val(c) \in TrackVals(P.trackId)'
                             /\ Vals(AllClips') = Vals(AllClips) \cup {Val(c)}
                      /\ \A t \in Range(tracks) :
                             t.id # P.trackId => TrackVals(t.id)' = TrackVals(t.id)
                 ELSE /\ [ i \in DOMAIN tracks |-> tracks[i].id ]
                           = [ i \in DOMAIN tracks' |-> tracks'[i].id ]
                      /\ \A t \in Range(tracks) : TrackVals(t.id)' = TrackVals(t.id)
                      /\ Cardinality(AllClips') = Cardinality(AllClips) ]_vars

\* A clip was copied and then made shorter; the paste has just added a clip
\* of the length the clip had when it was copied.
PasteWitness ==
    /\ last.op = "paste"
    /\ clipboard # << >>
    /\ \E c, n \in AllClips :
           /\ c.id = clipboard[1].id
           /\ c.duration < clipboard[1].duration
           /\ n.id # c.id
           /\ n.duration = clipboard[1].duration
           /\ n.startTime = currentTime

\* The track of the copied clip was deleted before the paste, which has
\* added nothing.
PasteNoTrackWitness ==
    /\ last.op = "paste"
    /\ clipboard # << >>
    /\ \A t \in Range(tracks) : t.id # clipboard[1].trackId

\* The files of a batch that decode, in file order.
Decoded(files) == SelectSeq(files, LAMBDA f : f # BAD)
Ids(s) == [ i \in DOMAIN s |-> s[i].id ]

\* C25: an import of a batch adds, to the sources and tracks it started
\* from, one source, one track and one full-length clip (startTime 0, offset 0,
\* duration of the source, gain 1.0) for each file that decodes, in file
\* order, and nothing for a file that fails; the loading flag ends false. When
\* the state still holds the sources and tracks the import started from, the
\* model has exactly that many tracks and clips more.
BatchImportSkipsFailures ==
    [][ (last'.op = "importFinish") =>
          LET imp == imports[last'.arg.index]
              good == Decoded(imp.files)
              ns == Len(imp.sources)
              nt == Len(imp.tracks)
          IN /\ ~isLoading'
             /\ Len(soundSources') = ns + Len(good)
             /\ Len(tracks') = nt + Len(good)
             /\ SubSeq(soundSources', 1, ns) = imp.sources
             /\ SubSeq(Ids(tracks'), 1, nt) = Ids(imp.tracks)
             /\ \A i \in 1..nt :
                    Vals(Range(trackClips'[tracks'[i].obj]))
                        = Vals(Range(trackClips[imp.tracks[i].obj]))
             /\ Cardinality(Range(Ids(soundSources'))) = Len(soundSources')
             /\ Cardinality(Range(Ids(tracks'))) = Len(tracks')
             /\ \A k \in DOMAIN good :
                    LET src == soundSources'[ns + k]
                        clips == trackClips'[tracks'[nt + k].obj]
                    IN /\ src.duration = good[k]
                       /\ Len(clips) = 1
                       /\ clips[1].sourceId = src.id
                       /\ clips[1].trackId = tracks'[nt + k].id
                       /\ clips[1].startTime = 0
                       /\ clips[1].offset = 0
                       /\ clips[1].duration = good[k]
                       /\ clips[1].gain = DEFAULT_GAIN
                       /\ handles'[clips[1].obj] = NoHandles
                       /\ clips[1].id \notin { c.id : c \in AllClips }
             /\ ((soundSources = imp.sources /\ tracks = imp.tracks) =>
                    /\ Len(tracks') = Len(tracks) + Len(good)
                    /\ Cardinality(AllClips') = Cardinality(AllClips) + Len(good)) ]_vars

\* A batch of three files whose second file failed to decode has just been
\* imported: the first and the third file are there, in that order.
BatchImportWitness ==
    /\ last.op = "importFinish"
    /\ Len(last.arg.files) = 3
    /\ last.arg.files[1] # BAD
    /\ last.arg.files[2] = BAD
    /\ last.arg.files[3] # BAD
    /\ last.arg.files[1] # last.arg.files[3]
    /\ Len(soundSources) = 2
    /\ soundSources[1].duration = last.arg.files[1]
    /\ soundSources[2].duration = last.arg.files[3]
    /\ ~isLoading

\* What play() from startOffset 0 hands to start(), with the clock at 0 when
\* it is called.
PlayFromZero ==
    { [ clip |-> c.id,
        when |-> Schedule(c, 0, 0).when,
        offset |-> Schedule(c, 0, 0).offset,
        duration |-> Schedule(c, 0, 0).duration,
        gain |-> Schedule(c, 0, 0).gain ] :
        c \in { k \in AllClips : ShouldStart(k, 0, World) } }

\* C26: in every state, the sources an export schedules are those play()
\* schedules from 0: each clip whose source is found, at clip.startTime,
\* reading clip.offset for clip.duration; and with a clip in the model the
\* export does not throw.
ExportMatchesPlayFromZero ==
    /\ exportSchedule(World, World) = PlayFromZero
    /\ \A c \in AllClips :
           SourceDuration(World, c.sourceId) # NULL =>
               \E st \in PlayFromZero :
                   /\ st.clip = c.id
                   /\ st.when = c.startTime
                   /\ st.offset = c.offset
                   /\ st.duration = c.duration
    /\ AllClips # {} => ~exportThrows(World, World)

\* C27: an export command that arrives while an export is in flight is
\* rejected: it starts no second offline render.
ExportWhileExportingRejected ==
    [][ (last'.op = "exportStart" /\ exports # << >>) => exports' = exports ]_vars

\* C28: the loading flag is set in every state in which an import or an
\* export is in flight.
LoadingWhileInFlight ==
    (imports # << >> \/ exports # << >>) => isLoading

\* C29: an export that fails, when the offline graph is built or when it is
\* rendered, alerts the user and ends with the loading flag false and with
\* sources, tracks, clips and transport as they were.
FailedExportIsContained ==
    [][ (\/ /\ last'.op = "exportStart"
            /\ Len(tracks) > 0 /\ ~isLoading
            /\ exportThrows(World, World)
         \/ /\ last'.op = "exportFinish"
            /\ last'.arg = FALSE) =>
          /\ Alert \in Range(last'.calls)
          /\ Download \notin Range(last'.calls)
          /\ ~isLoading'
          /\ Len(exports') <= Len(exports)
          /\ UNCHANGED << soundSources, tracks, trackClips, handles, nodes, isPlaying,
                          currentTime, globalDuration, selectedClipId, clipboard,
                          startOffset, startTime, audioContext, now, drag, imports >> ]_vars

\* The rendering of an export has just failed: the user was alerted and the
\* loading flag is false.
FailedRenderWitness ==
    /\ last.op = "exportFinish"
    /\ last.arg = FALSE
    /\ Alert \in Range(last.calls)
    /\ ~isLoading
    /\ Len(tracks) > 0

\* An export of tracks without clips (GlobalDuration 0) has just failed when
\* its offline context was built.
FailedConstructionWitness ==
    /\ last.op = "exportStart"
    /\ Alert \in Range(last.calls)
    /\ Len(tracks) > 0
    /\ globalDuration = 0
    /\ ~isLoading

WithinStage(v) == LengthSq(v) <= STAGE_RADIUS * STAGE_RADIUS

\* C30: every position a mesh holds for its track, and every position given
\* to the track's panner, lies within the stage radius of 10, whatever
\* meshes were created, dragged and scrolled and whatever mode switches were
\* made; and the panner was given the position the mesh holds.
PositionsWithinStage ==
    \A id \in DOMAIN meshes :
        /\ WithinStage(meshes[id])
        /\ id \in DOMAIN panners
        /\ panners[id] = meshes[id]

\* A drag asked for a point outside the stage, and the mesh was stored on the
\* rim.
DragClampedWitness ==
    /\ last.op = "meshPointerMove"
    /\ ~WithinStage(last.arg)
    /\ LengthSq(meshes[selectedObject]) = STAGE_RADIUS * STAGE_RADIUS

\* A turn of the wheel took the mesh out along the line from the camera, and
\* it was brought back to the stage.
WheelClampedWitness ==
    /\ last.op = "wheel"
    /\ ~smoothScroll
    /\ last.arg.deltaY < 0
    /\ LengthSq(meshes[selectedObject]) > (STAGE_RADIUS - 2) * (STAGE_RADIUS - 2)
    /\ WithinStage(meshes[selectedObject])

\* A frame of the smooth scroll moved a mesh after a switch of mode.
SmoothScrollWitness ==
    /\ last.op = "sceneFrame"
    /\ ~is3DMode
    /\ meshes[selectedObject] # Vec(0, 0, 0)

\* C31: in 2D mode every mesh, and with it the position given to the
\* track's panner, has y = 0: the switch from 3D to 2D projects the meshes
\* onto the plane, a mesh created in 2D mode is created on it, and a drag in
\* 2D mode stores y = 0.
FlatIn2DMode ==
    ~is3DMode =>
        \A id \in DOMAIN meshes : meshes[id].y = 0 /\ panners[id].y = 0

\* A mesh created off the plane has been projected by the switch to 2D: two
\* events were handled, and the mesh lies within the rim.
ProjectedWitness ==
    /\ last.op = "modeToggle"
    /\ ~is3DMode
    /\ budget = MaxSceneEvents - 2
    /\ \E id \in DOMAIN meshes :
          /\ meshes[id].y = 0
          /\ LengthSq(meshes[id]) < STAGE_RADIUS * STAGE_RADIUS
          /\ LengthSq(meshes[id]) > 0

\* A mesh was created in 2D mode.
CreatedIn2DWitness ==
    /\ last.op = "createMesh"
    /\ ~is3DMode
    /\ last.arg.y # 0

\* A drag in 2D mode asked for a point off the plane.
DraggedIn2DWitness ==
    /\ last.op = "meshPointerMove"
    /\ ~is3DMode
    /\ last.arg.y # 0

\* The little-endian fields of the header.
Uint16At(bytes, pos) == bytes[pos + 1] + 256 * bytes[pos + 2]
Uint32At(bytes, pos) ==
    bytes[pos + 1] + 256 * bytes[pos + 2] + 65536 * bytes[pos + 3]
        + 16777216 * bytes[pos + 4]
Frames == renderedBuffer[1].length
Channels == renderedBuffer[1].numberOfChannels

\* C32: of a rendered buffer of F frames and C channels bufferToWav makes
\* 44 + F*C*2 bytes, each in 0..255, whose header declares format tag 1, C
\* channels, the frame rate, byte rate sampleRate*C*2, block align C*2, 16
\* bits per sample, a RIFF chunk of the total less 8 and a data chunk of
\* F*C*2 bytes.
WavHeaderIsCanonical ==
    wavBlob # << >> =>
        /\ Len(wavBlob) = HEADER_BYTES + Frames * Channels * 2
        /\ \A k \in DOMAIN wavBlob : wavBlob[k] \in 0..255
        /\ Uint32At(wavBlob, 0) = RIFF
        /\ Uint32At(wavBlob, 4) = Len(wavBlob) - 8
        /\ Uint32At(wavBlob, 8) = WAVE
        /\ Uint32At(wavBlob, 12) = FMT
        /\ Uint32At(wavBlob, 16) = 16
        /\ Uint16At(wavBlob, 20) = 1
        /\ Uint16At(wavBlob, 22) = Channels
        /\ Uint32At(wavBlob, 24) = renderedBuffer[1].sampleRate
        /\ Uint32At(wavBlob, 28) = renderedBuffer[1].sampleRate * Channels * 2
        /\ Uint16At(wavBlob, 32) = Channels * 2
        /\ Uint16At(wavBlob, 34) = 16
        /\ Uint32At(wavBlob, 36) = DATA
        /\ Uint32At(wavBlob, 40) = Frames * Channels * 2

\* The stereo export of a timeline of 3.0 s has been encoded.
StereoExportWitness ==
    /\ wavBlob # << >>
    /\ Channels = 2
    /\ Frames = renderedBuffer[1].sampleRate * 3
    /\ Uint32At(wavBlob, 40) = Frames * 2 * 2

\* A stereo buffer of samples beyond [-1, 1] has been encoded.
StereoSamplesWitness ==
    /\ wavBlob # << >>
    /\ Channels = 2
    /\ Frames = MaxFrames
    /\ \E i \in 1..Frames : renderedBuffer[1].channels[2][i] = 8

\* C33: no update is lost to an import in flight: when an import completes,
\* every track the model held just before is still there with the clips it
\* had, and no track the import saw when it started and that has been
\* deleted since comes back.
NoUpdateLostToImport ==
    [][ (last'.op = "importFinish") =>
          LET imp == imports[last'.arg.index]
          IN /\ \A t \in Range(tracks) :
                    /\ \E u \in Range(tracks') : u.id = t.id
                    /\ TrackVals(t.id)' = TrackVals(t.id)
             /\ \A u \in Range(tracks') :
                    \/ \E t \in Range(tracks) : t.id = u.id
                    \/ \A t \in Range(imp.tracks) : t.id # u.id ]_vars

\* C34: no two clips of the model with different ids hold the same live
\* source handle or the same live gain handle; the two clips a slice makes of
\* a sounding clip do not share the handles it held.
NoSharedLiveHandles ==
    \A c, d \in AllClips :
        c.id # d.id =>
            /\ handles[c.obj].sourceNode # NULL =>
                   handles[c.obj].sourceNode # handles[d.obj].sourceNode
            /\ handles[c.obj].clipGainNode # NULL =>
                   handles[c.obj].clipGainNode # handles[d.obj].clipGainNode

\* C35: once the end of the timeline has put the position at 0, a frame that
\* was requested before and runs after it changes neither the position shown
\* nor startOffset.
StaleFrameChangesNothing ==
    [][ (last'.op = "staleTick" /\ ~isPlaying /\ currentTime = 0 /\ startOffset = 0) =>
          (currentTime' = 0 /\ startOffset' = 0) ]_vars

\* While a frame is pending, the tracks it closes over are the tracks of the
\* state.
PendingFrameTracksCurrent ==
    pendingFrame # << >> => pendingFrame[1].tracks = tracks

\* C36: a trim by nothing is the identity: a trimStart or trimEnd drag moved
\* by 0 leaves the clip with the startTime, offset and duration it had when
\* the drag began, also when the clip is shorter than 0.1 s.
ZeroTrimIsIdentity ==
    [][ (last'.op = "pointerMove" /\ last'.arg = 0 /\ drag # << >>
           /\ drag[1].type \in {"trimStart", "trimEnd"}) =>
          LET o == drag[1].originalClip
          IN \A c \in AllClips' :
                 c.id = o.id =>
                     /\ c.startTime = o.startTime
                     /\ c.offset = o.offset
                     /\ c.duration = o.duration ]_vars

\* C37: every clip names the track whose clips array holds it and a source
\* of the registry, and no two clips of the model have the same id, whatever
\* imports, slices, pastes, clip updates and deletions were made.
ReferentialIntegrity ==
    /\ \A t \in Range(tracks) :
           \A c \in Range(trackClips[t.obj]) :
               /\ c.trackId = t.id
               /\ \E src \in Range(soundSources) : src.id = c.sourceId
    /\ \A t, u \in DOMAIN tracks :
           \A j \in DOMAIN trackClips[tracks[t].obj], k \in DOMAIN trackClips[tracks[u].obj] :
               (t # u \/ j # k) =>
                   trackClips[tracks[t].obj][j].id # trackClips[tracks[u].obj][k].id

\* Two tracks, one of them with two clips, the second made by the slice or
\* the paste that has just been handled.
IntegrityWitness ==
    /\ Len(tracks) >= 2
    /\ \E t \in Range(tracks) : Len(trackClips[t.obj]) >= 2
    /\ last.op \in {"slice", "paste"}

\* C38: the selected clip id is null or the id of a clip some track holds,
\* whatever clips were selected, sliced and deleted and whatever tracks were
\* deleted.
SelectionExists ==
    selectedClipId # NULL => HasClip(selectedClipId)

====
